---- MODULE Spec2Model ----
(***************************************************************************)
(* A model of oscapxml: the mappers that turn a generic, namespace-aware   *)
(* XML element tree into the typed model of a SCAP source data stream      *)
(* collection (sds.rs) and of the XCCDF benchmarks it carries (xccdf.rs),  *)
(* with the attribute and text accessors they share (utils.rs).            *)
(*                                                                         *)
(* An element is a record [t, name, ns, attrs, nodes]: attrs is a function *)
(* from attribute names to values, nodes the ordered child nodes, each an  *)
(* element (t = "Element") or a text node [t |-> "Text", s |-> string].    *)
(* A Result is Ok(v) or Err(message); a panic (an unwrap of an Err) is a   *)
(* third outcome that unwinds through every caller.  Messages are the very *)
(* strings format! builds.                                                 *)
(***************************************************************************)
EXTENDS Integers, Sequences, FiniteSets, TLC

VARIABLES
    op,      \* the mapping operation applied: the from_xml that is called
    input,   \* the element handed to it (read-only for the mapper)
    result,  \* what the call produced: Ok(model), Err(message) or a panic
    pc       \* "ready" before the call, "done" after it

vars == <<op, input, result, pc>>

(***************************************************************************)
(* Option and Result                                                       *)
(***************************************************************************)
None == <<>>

Some(x) == <<x>>

Ok(v) == [kind |-> "Ok", val |-> v]

Err(m) == [kind |-> "Err", msg |-> m]

Panic(m) == [kind |-> "Panic", msg |-> m]

IsOk(r) == r.kind = "Ok"

IsErr(r) == r.kind = "Err"

IsPanic(r) == r.kind = "Panic"

NoResult == [kind |-> "None"]

(***************************************************************************)
(* The element tree (minidom::Element as the mappers use it)               *)
(***************************************************************************)
Text(s) == [t |-> "Text", s |-> s]

Elem(name, ns, attrs, nodes) ==
    [t |-> "Element", name |-> name, ns |-> ns, attrs |-> attrs, nodes |-> nodes]

NoAttrs == <<>>

IsElement(n) == n.t = "Element"

IsText(n) == n.t = "Text"

children(el) == SelectSeq(el.nodes, IsElement)

attr(el, name) ==
    IF name \in DOMAIN el.attrs THEN Some(el.attrs[name]) ELSE None

is(el, name, ns) == el.name = name /\ el.ns = ns

RECURSIVE first_is(_, _, _, _)
first_is(ch, i, name, ns) ==
    IF i > Len(ch) THEN None
    ELSE IF is(ch[i], name, ns) THEN Some(ch[i])
    ELSE first_is(ch, i + 1, name, ns)

get_child(el, name, ns) == first_is(children(el), 1, name, ns)

RECURSIVE concat_texts(_, _)
concat_texts(nodes, i) ==
    IF i > Len(nodes) THEN ""
    ELSE IF IsText(nodes[i]) THEN nodes[i].s \o concat_texts(nodes, i + 1)
    ELSE concat_texts(nodes, i + 1)

text(el) == concat_texts(el.nodes, 1)

(***************************************************************************)
(* Strings: str::replace("\n", " "), str::starts_with, FromStr, {:?}       *)
(***************************************************************************)
RECURSIVE replace_newlines(_)
replace_newlines(s) ==
    IF Len(s) = 0 THEN ""
    ELSE LET c == SubSeq(s, 1, 1) IN
         (IF c = "\n" THEN " " ELSE c) \o replace_newlines(SubSeq(s, 2, Len(s)))

starts_with(s, p) == Len(s) >= Len(p) /\ SubSeq(s, 1, Len(p)) = p

\* <bool as FromStr>: exactly "true" and "false" parse.
parse_bool(s) ==
    IF s = "true" THEN Some(TRUE) ELSE IF s = "false" THEN Some(FALSE) ELSE None

\* <f64 as FromStr> on the decimal literals the inputs use; the value is kept
\* in tenths, so that "1" and "1.0" are the same number.
parse_f64(s) ==
    CASE s = "1.0" -> Some(10)
      [] s = "1" -> Some(10)
      [] s = "0.5" -> Some(5)
      [] s = "2.5" -> Some(25)
      [] OTHER -> None

\* <String as FromStr> never fails.
parse_string(s) == Some(s)

\* T::from_str for the three target types the mappers ask for.
from_str(T, s) ==
    CASE T = "bool" -> parse_bool(s)
      [] T = "f64" -> parse_f64(s)
      [] T = "String" -> parse_string(s)

RECURSIVE debug_items(_, _)
debug_items(v, i) ==
    IF i > Len(v) THEN ""
    ELSE (IF i > 1 THEN ", " ELSE "") \o "\"" \o v[i] \o "\"" \o debug_items(v, i + 1)

\* format!("{:?}", Vec<&str>)
debug_vec(v) == "[" \o debug_items(v, 1) \o "]"

contains(v, s) == \E i \in 1..Len(v) : v[i] = s

(***************************************************************************)
(* utils.rs                                                                *)
(***************************************************************************)
get_attr(el, a) == attr(el, a)

get_attr_default(el, name, default, T) ==
    LET a == attr(el, name) IN
    IF a # None
    THEN LET x == from_str(T, a[1]) IN
         IF x # None THEN Ok(x[1])
         ELSE Err("Element '" \o el.name \o "' attribute '" \o name
                  \o "' can't parse value '" \o a[1] \o "'.")
    ELSE Ok(default)

\* Called by xccdf.rs, defined in no file of src/: the typed-default accessor
\* of the specification, at the boolean target type.
get_attr_default_bool(el, name, default) ==
    get_attr_default(el, name, default, "bool")

options_error(el, name, val, options) ==
    Err("Element '" \o el.name \o "' attribute '" \o name \o "'='" \o val
        \o "', but expected one of " \o debug_vec(options))

\* Mutant: an absent attribute yields the default without the membership test.
get_attr_default_options_default_unchecked(el, name, default, options) ==
    IF attr(el, name) = None THEN Ok(default)
    ELSE IF contains(options, attr(el, name)[1]) THEN Ok(attr(el, name)[1])
    ELSE options_error(el, name, attr(el, name)[1], options)

get_attr_default_options(el, name, default, options) ==
    LET r == get_attr_default(el, name, default, "String") IN
    IF ~IsOk(r) THEN r
    ELSE IF contains(options, r.val) THEN Ok(r.val)
    ELSE options_error(el, name, r.val, options)

\* Mutant: an attribute with the empty value is taken for an absent one.
require_attr_nonempty(el, a) ==
    IF attr(el, a) # None /\ attr(el, a) # Some("") THEN Ok(attr(el, a)[1])
    ELSE Err("Element '" \o el.name \o "' doesn't have required '" \o a
             \o "' attribute")

require_attr(el, a) ==
    LET v == attr(el, a) IN
    IF v # None THEN Ok(v[1])
    ELSE Err("Element '" \o el.name \o "' doesn't have required '" \o a
             \o "' attribute")

\* Mutant: the value is returned without the membership test.
require_attr_options_unchecked(el, a, options) ==
    LET r == require_attr(el, a) IN
    IF ~IsOk(r) THEN r ELSE Ok(r.val)

require_attr_options(el, a, options) ==
    LET r == require_attr(el, a) IN
    IF ~IsOk(r) THEN r
    ELSE IF contains(options, r.val) THEN Ok(r.val)
    ELSE options_error(el, a, r.val, options)

RECURSIVE html_nodes(_, _)
html_nodes(nodes, i) ==
    IF i > Len(nodes) THEN ""
    ELSE LET n == nodes[i] IN
         (IF IsText(n) THEN replace_newlines(n.s)
          ELSE IF n.name = "br" THEN "\n"
          ELSE replace_newlines(text(n)))
         \o html_nodes(nodes, i + 1)

html_to_string(el) == html_nodes(el.nodes, 1)

\* vec.push(X::from_xml(child)?): the bucket grows, or the failure leaves.
\* Mutant: the mapped child is put at the front of its list.
Push_front(acc, bucket, r) ==
    IF IsOk(r) THEN Ok([acc EXCEPT ![bucket] = <<r.val>> \o @]) ELSE r

Push(acc, bucket, r) ==
    IF IsOk(r) THEN Ok([acc EXCEPT ![bucket] = Append(@, r.val)]) ELSE r

\* singleton = Some(X::from_xml(child)?)
Put(acc, bucket, r) ==
    IF IsOk(r) THEN Ok([acc EXCEPT ![bucket] = Some(r.val)]) ELSE r

(***************************************************************************)
(* xccdf.rs: the leaf value types                                          *)
(***************************************************************************)
XCCDF12_NS == "http://checklists.nist.gov/xccdf/1.2"

allowed_statuses == <<"incomplete", "draft", "interim", "accepted", "deprecated">>

Status_from_xml(el) ==
    LET date == get_attr(el, "date")
        status == text(el)
    IN  IF ~contains(allowed_statuses, status)
        THEN Err("Unexpected xccdf:status value: '" \o status)
        ELSE Ok([date |-> date, status |-> status])

Title_from_xml(el) == Ok([title |-> text(el)])

Description_from_xml(el) == Ok([text |-> html_to_string(el)])

Notice_from_xml(el) ==
    LET id == require_attr(el, "id") IN
    IF ~IsOk(id) THEN id ELSE Ok([id |-> id.val, text |-> text(el)])

FrontMatter_from_xml(el) == Ok([text |-> text(el)])

RearMatter_from_xml(el) == Ok([text |-> text(el)])

Reference_from_xml(el) == Ok([text |-> text(el)])

PlainText_from_xml(el) == Ok([text |-> text(el)])

PlatformSpecification_from_xml(el) == Ok([text |-> text(el)])

Platform_from_xml(el) ==
    LET idref == require_attr(el, "idref") IN
    IF ~IsOk(idref) THEN idref ELSE Ok([idref |-> idref.val])

Version_from_xml(el) == Ok([text |-> text(el)])

Model_from_xml(el) == Ok([text |-> text(el)])

Value_from_xml(el) ==
    LET id == require_attr(el, "id") IN
    IF ~IsOk(id) THEN id ELSE Ok([id |-> id.val])

TestResult_from_xml(el) ==
    LET id == require_attr(el, "id") IN
    IF ~IsOk(id) THEN id ELSE Ok([id |-> id.val])

\* require_attr(el, "selected")?.parse().unwrap(): a missing attribute is an
\* Err, a present one that is no bool makes unwrap panic (the panic text is
\* written without the backquotes Rust puts around the two names).
Select_from_xml(el) ==
    LET idref == require_attr(el, "idref") IN
    IF ~IsOk(idref) THEN idref
    ELSE LET selected == require_attr(el, "selected") IN
         IF ~IsOk(selected) THEN selected
         ELSE LET b == parse_bool(selected.val) IN
              IF b = None
              THEN Panic("called Result::unwrap() on an Err value: ParseBoolError")
              ELSE Ok([idref |-> idref.val, selected |-> b[1]])

SetComplexValue_from_xml(el) == Ok([text |-> text(el)])

SetValue_from_xml(el) == Ok([text |-> text(el)])

RefineValue_from_xml(el) == Ok([text |-> text(el)])

RefineRule_from_xml(el) == Ok([text |-> text(el)])

Warning_from_xml(el) == Ok([text |-> text(el)])

Question_from_xml(el) == Ok([text |-> text(el)])

Rationale_from_xml(el) == Ok([text |-> text(el)])

Requires_from_xml(el) == Ok([text |-> text(el)])

Conflicts_from_xml(el) ==
    LET idref == require_attr(el, "idref") IN
    IF ~IsOk(idref) THEN idref ELSE Ok([idref |-> idref.val])

Ident_from_xml(el) ==
    LET system == require_attr(el, "system") IN
    IF ~IsOk(system) THEN system
    ELSE Ok([text |-> text(el), system |-> system.val])

ProfileNote_from_xml(el) == Ok([text |-> text(el)])

FixText_from_xml(el) == Ok([text |-> text(el)])

Fix_from_xml(el) == Ok([text |-> text(el)])

Check_from_xml(el) == Ok([text |-> text(el)])

ComplexCheck_from_xml(el) == Ok([text |-> text(el)])

Metadata_empty ==
    [contributors |-> <<>>, publishers |-> <<>>, creators |-> <<>>, sources |-> <<>>]

Metadata_child(acc, child) ==
    CASE child.name = "contributor" -> [acc EXCEPT !.contributors = Append(@, text(child))]
      [] child.name = "publisher" -> [acc EXCEPT !.publishers = Append(@, text(child))]
      [] child.name = "creator" -> [acc EXCEPT !.creators = Append(@, text(child))]
      [] child.name = "source" -> [acc EXCEPT !.sources = Append(@, text(child))]
      [] OTHER -> acc

RECURSIVE Metadata_children(_, _, _)
Metadata_children(ch, i, acc) ==
    IF i > Len(ch) THEN acc
    ELSE Metadata_children(ch, i + 1, Metadata_child(acc, ch[i]))

Metadata_from_xml(el) == Ok(Metadata_children(children(el), 1, Metadata_empty))

(***************************************************************************)
(* xccdf.rs: Profile                                                       *)
(***************************************************************************)
Profile_attrs(el) ==
    LET id == require_attr(el, "id") IN
    IF ~IsOk(id) THEN id
    ELSE LET prohibit_changes == get_attr_default_bool(el, "prohibitChanges", FALSE) IN
    IF ~IsOk(prohibit_changes) THEN prohibit_changes
    ELSE LET abstract_ == get_attr_default(el, "abstract", FALSE, "bool") IN
    IF ~IsOk(abstract_) THEN abstract_
    ELSE Ok([id |-> id.val,
             prohibit_changes |-> prohibit_changes.val,
             abstract_ |-> abstract_.val,
             note_tag |-> get_attr(el, "note-tag"),
             extends |-> get_attr(el, "extends")])

Profile_empty ==
    [statuses |-> <<>>, version |-> None, titles |-> <<>>, descriptions |-> <<>>,
     references |-> <<>>, platforms |-> <<>>, selects |-> <<>>,
     set_complex_values |-> <<>>, set_values |-> <<>>, refine_values |-> <<>>,
     refine_rules |-> <<>>]

Profile_child(id, acc, child) ==
    CASE child.name = "status" -> Push(acc, "statuses", Status_from_xml(child))
      [] child.name = "version" ->
            IF acc.version # None THEN Err("Duplicate version elements")
            ELSE Put(acc, "version", Version_from_xml(child))
      [] child.name = "title" -> Push(acc, "titles", Title_from_xml(child))
      [] child.name = "description" ->
            Push(acc, "descriptions", Description_from_xml(child))
      [] child.name = "reference" -> Push(acc, "references", Reference_from_xml(child))
      [] child.name = "platform" -> Push(acc, "platforms", Platform_from_xml(child))
      [] child.name = "select" -> Push(acc, "selects", Select_from_xml(child))
      [] child.name = "set-complex-value" ->
            Push(acc, "set_complex_values", SetComplexValue_from_xml(child))
      [] child.name = "set-value" -> Push(acc, "set_values", SetValue_from_xml(child))
      [] child.name = "refine-value" ->
            Push(acc, "refine_values", RefineValue_from_xml(child))
      [] child.name = "refine-rule" ->
            Push(acc, "refine_rules", RefineRule_from_xml(child))
      [] OTHER ->
            Err("Profile '" \o id \o "': unexpected element '" \o child.name \o "'")

RECURSIVE Profile_children(_, _, _, _)
Profile_children(id, ch, i, acc) ==
    IF ~IsOk(acc) \/ i > Len(ch) THEN acc
    ELSE Profile_children(id, ch, i + 1, Profile_child(id, acc.val, ch[i]))

\* Mutant: a Profile without a title is built all the same.
Profile_build_untitled(a, c) == IF ~IsOk(c) THEN c ELSE Ok(a @@ c.val)

\* After the child pass (c is its outcome, an error of it is passed on): a
\* Profile needs a title.
Profile_build(a, c) ==
    IF ~IsOk(c) THEN c
    ELSE IF Len(c.val.titles) = 0
    THEN Err("Profile '" \o a.id \o "' doesn't have any title")
    ELSE Ok(a @@ c.val)

Profile_from_xml(el) ==
    LET a == Profile_attrs(el) IN
    IF ~IsOk(a) THEN a
    ELSE Profile_build(a.val,
                       Profile_children(a.val.id, children(el), 1, Ok(Profile_empty)))

(***************************************************************************)
(* xccdf.rs: Rule                                                          *)
(***************************************************************************)
Rule_attrs(el) ==
    LET id == require_attr(el, "id") IN
    IF ~IsOk(id) THEN id
    ELSE LET abstract_ == get_attr_default_bool(el, "abstract", FALSE) IN
    IF ~IsOk(abstract_) THEN abstract_
    ELSE LET hidden == get_attr_default_bool(el, "hidden", FALSE) IN
    IF ~IsOk(hidden) THEN hidden
    ELSE LET prohibit_changes == get_attr_default_bool(el, "prohibitChanges", FALSE) IN
    IF ~IsOk(prohibit_changes) THEN prohibit_changes
    ELSE LET selected == get_attr_default_bool(el, "selected", TRUE) IN
    IF ~IsOk(selected) THEN selected
    ELSE LET weight == get_attr_default(el, "weight", 10, "f64") IN
    IF ~IsOk(weight) THEN weight
    ELSE LET role == get_attr_default_options(el, "rule", "full",
                         <<"full", "unscored", "unchecked">>) IN
    IF ~IsOk(role) THEN role
    ELSE LET severity == get_attr_default_options(el, "severity", "unknown",
                             <<"unknown", "info", "low", "medium", "high">>) IN
    IF ~IsOk(severity) THEN severity
    ELSE LET multiple == get_attr_default_bool(el, "multiple", FALSE) IN
    IF ~IsOk(multiple) THEN multiple
    ELSE Ok([id |-> id.val,
             abstract_ |-> abstract_.val,
             cluster_id |-> get_attr(el, "cluster-id"),
             extends |-> get_attr(el, "extends"),
             hidden |-> hidden.val,
             prohibit_changes |-> prohibit_changes.val,
             selected |-> selected.val,
             weight |-> weight.val,
             role |-> role.val,
             severity |-> severity.val,
             multiple |-> multiple.val])

Rule_empty ==
    [statuses |-> <<>>, version |-> None, titles |-> <<>>, descriptions |-> <<>>,
     warnings |-> <<>>, questions |-> <<>>, references |-> <<>>, metadata |-> <<>>,
     rationales |-> <<>>, platforms |-> <<>>, requires |-> <<>>, conflicts |-> <<>>,
     idents |-> <<>>, profile_notes |-> <<>>, fixtexts |-> <<>>, fixes |-> <<>>,
     checks |-> <<>>, complex_checks |-> <<>>]

Rule_child(id, acc, child) ==
    CASE child.name = "status" -> Push(acc, "statuses", Status_from_xml(child))
      [] child.name = "version" ->
            IF acc.version # None THEN Err("Duplicate version elements")
            ELSE Put(acc, "version", Version_from_xml(child))
      [] child.name = "title" -> Push(acc, "titles", Title_from_xml(child))
      [] child.name = "description" ->
            Push(acc, "descriptions", Description_from_xml(child))
      [] child.name = "warning" -> Push(acc, "warnings", Warning_from_xml(child))
      [] child.name = "question" -> Push(acc, "questions", Question_from_xml(child))
      [] child.name = "reference" -> Push(acc, "references", Reference_from_xml(child))
      [] child.name = "metadata" -> Push(acc, "metadata", Metadata_from_xml(child))
      [] child.name = "rationale" -> Push(acc, "rationales", Rationale_from_xml(child))
      [] child.name = "platform" -> Push(acc, "platforms", Platform_from_xml(child))
      [] child.name = "requires" -> Push(acc, "requires", Requires_from_xml(child))
      [] child.name = "conflicts" -> Push(acc, "conflicts", Conflicts_from_xml(child))
      [] child.name = "ident" -> Push(acc, "idents", Ident_from_xml(child))
      [] child.name = "profile-note" ->
            Push(acc, "profile_notes", ProfileNote_from_xml(child))
      [] child.name = "fixtext" -> Push(acc, "fixtexts", FixText_from_xml(child))
      [] child.name = "fix" -> Push(acc, "fixes", Fix_from_xml(child))
      [] child.name = "check" -> Push(acc, "checks", Check_from_xml(child))
      [] child.name = "complex-check" ->
            Push(acc, "complex_checks", ComplexCheck_from_xml(child))
      [] OTHER ->
            Err("Rule '" \o id \o "': unexpected element '" \o child.name \o "'")

\* Mutant: a child the Rule does not know is passed over.
RECURSIVE Rule_children_tolerant(_, _, _, _)
Rule_children_tolerant(id, ch, i, acc) ==
    IF ~IsOk(acc) \/ i > Len(ch) THEN acc
    ELSE Rule_children_tolerant(id, ch, i + 1,
             IF ch[i].name \in {"Group", "Rule", "Value", "note"} THEN acc
             ELSE Rule_child(id, acc.val, ch[i]))

RECURSIVE Rule_children(_, _, _, _)
Rule_children(id, ch, i, acc) ==
    IF ~IsOk(acc) \/ i > Len(ch) THEN acc
    ELSE Rule_children(id, ch, i + 1, Rule_child(id, acc.val, ch[i]))

Rule_build(a, c) == IF ~IsOk(c) THEN c ELSE Ok(a @@ c.val)

Rule_from_xml(el) ==
    LET a == Rule_attrs(el) IN
    IF ~IsOk(a) THEN a
    ELSE Rule_build(a.val, Rule_children(a.val.id, children(el), 1, Ok(Rule_empty)))

(***************************************************************************)
(* xccdf.rs: Group, which nests Value, Group and Rule                      *)
(***************************************************************************)
\* Mutant: `abstract` is converted before the id is required.
Group_attrs_abstract_first(el) ==
    LET abstract_ == get_attr_default_bool(el, "abstract", FALSE) IN
    IF ~IsOk(abstract_) THEN abstract_
    ELSE LET id == require_attr(el, "id") IN
    IF ~IsOk(id) THEN id
    ELSE LET hidden == get_attr_default_bool(el, "hidden", FALSE) IN
    IF ~IsOk(hidden) THEN hidden
    ELSE LET prohibit_changes == get_attr_default_bool(el, "prohibitChanges", FALSE) IN
    IF ~IsOk(prohibit_changes) THEN prohibit_changes
    ELSE LET selected == get_attr_default_bool(el, "selected", TRUE) IN
    IF ~IsOk(selected) THEN selected
    ELSE LET weight == get_attr_default(el, "weight", 10, "f64") IN
    IF ~IsOk(weight) THEN weight
    ELSE Ok([id |-> id.val,
             abstract_ |-> abstract_.val,
             cluster_id |-> get_attr(el, "cluster-id"),
             extends |-> get_attr(el, "extends"),
             hidden |-> hidden.val,
             prohibit_changes |-> prohibit_changes.val,
             selected |-> selected.val,
             weight |-> weight.val])

Group_attrs(el) ==
    LET id == require_attr(el, "id") IN
    IF ~IsOk(id) THEN id
    ELSE LET abstract_ == get_attr_default_bool(el, "abstract", FALSE) IN
    IF ~IsOk(abstract_) THEN abstract_
    ELSE LET hidden == get_attr_default_bool(el, "hidden", FALSE) IN
    IF ~IsOk(hidden) THEN hidden
    ELSE LET prohibit_changes == get_attr_default_bool(el, "prohibitChanges", FALSE) IN
    IF ~IsOk(prohibit_changes) THEN prohibit_changes
    ELSE LET selected == get_attr_default_bool(el, "selected", TRUE) IN
    IF ~IsOk(selected) THEN selected
    ELSE LET weight == get_attr_default(el, "weight", 10, "f64") IN
    IF ~IsOk(weight) THEN weight
    ELSE Ok([id |-> id.val,
             abstract_ |-> abstract_.val,
             cluster_id |-> get_attr(el, "cluster-id"),
             extends |-> get_attr(el, "extends"),
             hidden |-> hidden.val,
             prohibit_changes |-> prohibit_changes.val,
             selected |-> selected.val,
             weight |-> weight.val])

Group_empty ==
    [statuses |-> <<>>, version |-> None, titles |-> <<>>, descriptions |-> <<>>,
     warnings |-> <<>>, questions |-> <<>>, references |-> <<>>, metadata |-> <<>>,
     rationales |-> <<>>, platforms |-> <<>>, requires |-> <<>>, conflicts |-> <<>>,
     values |-> <<>>, groups |-> <<>>, rules |-> <<>>]

RECURSIVE Group_from_xml(_)
Group_child(id, acc, child) ==
    CASE child.name = "status" -> Push(acc, "statuses", Status_from_xml(child))
      [] child.name = "version" ->
            IF acc.version # None THEN Err("Duplicate version elements")
            ELSE Put(acc, "version", Version_from_xml(child))
      [] child.name = "title" -> Push(acc, "titles", Title_from_xml(child))
      [] child.name = "description" ->
            Push(acc, "descriptions", Description_from_xml(child))
      [] child.name = "warning" -> Push(acc, "warnings", Warning_from_xml(child))
      [] child.name = "question" -> Push(acc, "questions", Question_from_xml(child))
      [] child.name = "reference" -> Push(acc, "references", Reference_from_xml(child))
      [] child.name = "metadata" -> Push(acc, "metadata", Metadata_from_xml(child))
      [] child.name = "rationale" -> Push(acc, "rationales", Rationale_from_xml(child))
      [] child.name = "platform" -> Push(acc, "platforms", Platform_from_xml(child))
      [] child.name = "requires" -> Push(acc, "requires", Requires_from_xml(child))
      [] child.name = "conflicts" -> Push(acc, "conflicts", Conflicts_from_xml(child))
      [] child.name = "Value" -> Push(acc, "values", Value_from_xml(child))
      [] child.name = "Group" -> Push(acc, "groups", Group_from_xml(child))
      [] child.name = "Rule" -> Push(acc, "rules", Rule_from_xml(child))
      [] OTHER ->
            Err("Rule '" \o id \o "': unexpected element '" \o child.name \o "'")

RECURSIVE Group_children(_, _, _, _)
Group_children(id, ch, i, acc) ==
    IF ~IsOk(acc) \/ i > Len(ch) THEN acc
    ELSE Group_children(id, ch, i + 1, Group_child(id, acc.val, ch[i]))

Group_build(a, c) == IF ~IsOk(c) THEN c ELSE Ok(a @@ c.val)

Group_from_xml(el) ==
    LET a == Group_attrs(el) IN
    IF ~IsOk(a) THEN a
    ELSE Group_build(a.val, Group_children(a.val.id, children(el), 1, Ok(Group_empty)))

(***************************************************************************)
(* xccdf.rs: Benchmark                                                     *)
(***************************************************************************)
Benchmark_attrs(el) ==
    LET id == require_attr(el, "id") IN
    IF ~IsOk(id) THEN id
    ELSE LET resolved == get_attr_default_bool(el, "resolved", FALSE) IN
    IF ~IsOk(resolved) THEN resolved
    ELSE Ok([id |-> id.val,
             resolved |-> resolved.val,
             style |-> get_attr(el, "style"),
             style_href |-> get_attr(el, "style-href")])

Benchmark_empty ==
    [statuses |-> <<>>, titles |-> <<>>, descriptions |-> <<>>, notices |-> <<>>,
     front_matters |-> <<>>, rear_matters |-> <<>>, references |-> <<>>,
     plain_texts |-> <<>>, platform_specification |-> None, platforms |-> <<>>,
     version |-> None, metadata |-> <<>>, models |-> <<>>, profiles |-> <<>>,
     values |-> <<>>, groups |-> <<>>, rules |-> <<>>, test_results |-> <<>>]

Benchmark_child(acc, child) ==
    CASE child.name = "status" -> Push(acc, "statuses", Status_from_xml(child))
      [] child.name = "title" -> Push(acc, "titles", Title_from_xml(child))
      [] child.name = "description" ->
            Push(acc, "descriptions", Description_from_xml(child))
      [] child.name = "notice" -> Push(acc, "notices", Notice_from_xml(child))
      [] child.name = "front-matter" ->
            Push(acc, "front_matters", FrontMatter_from_xml(child))
      [] child.name = "rear-matter" ->
            Push(acc, "rear_matters", RearMatter_from_xml(child))
      [] child.name = "reference" -> Push(acc, "references", Reference_from_xml(child))
      [] child.name = "plain-text" -> Push(acc, "plain_texts", PlainText_from_xml(child))
      [] child.name = "platform-specification" ->
            IF acc.platform_specification # None
            THEN Err("Duplicate platform elements")
            ELSE Put(acc, "platform_specification",
                     PlatformSpecification_from_xml(child))
      [] child.name = "platform" -> Push(acc, "platforms", Platform_from_xml(child))
      [] child.name = "version" ->
            IF acc.version # None THEN Err("Duplicate version elements")
            ELSE Put(acc, "version", Version_from_xml(child))
      [] child.name = "metadata" -> Push(acc, "metadata", Metadata_from_xml(child))
      [] child.name = "model" -> Push(acc, "models", Model_from_xml(child))
      [] child.name = "Profile" -> Push(acc, "profiles", Profile_from_xml(child))
      [] child.name = "Value" -> Push(acc, "values", Value_from_xml(child))
      [] child.name = "Group" -> Push(acc, "groups", Group_from_xml(child))
      [] child.name = "Rule" -> Push(acc, "rules", Rule_from_xml(child))
      [] child.name = "TestResult" ->
            Push(acc, "test_results", TestResult_from_xml(child))
      [] OTHER -> Err("unexpected element " \o child.name)

RECURSIVE Benchmark_children(_, _, _)
Benchmark_children(ch, i, acc) ==
    IF ~IsOk(acc) \/ i > Len(ch) THEN acc
    ELSE Benchmark_children(ch, i + 1, Benchmark_child(acc.val, ch[i]))

\* Mutant: the version is looked for before the status.
Benchmark_build_version_first(a, c) ==
    IF ~IsOk(c) THEN c
    ELSE IF c.val.version = None
    THEN Err("xccdf:Benchmark " \o a.id \o ": missing version element")
    ELSE IF Len(c.val.statuses) = 0
    THEN Err("xccdf:Benchmark " \o a.id \o ": missing status element")
    ELSE Ok(a @@ [c.val EXCEPT !.version = c.val.version[1]])

\* After the child pass (c is its outcome, an error of it is passed on): status
\* first, then version, then the built value.
Benchmark_build(a, c) ==
    IF ~IsOk(c) THEN c
    ELSE IF Len(c.val.statuses) = 0
    THEN Err("xccdf:Benchmark " \o a.id \o ": missing status element")
    ELSE IF c.val.version = None
    THEN Err("xccdf:Benchmark " \o a.id \o ": missing version element")
    ELSE Ok(a @@ [c.val EXCEPT !.version = c.val.version[1]])

Benchmark_from_xml(benchmark_el) ==
    IF ~is(benchmark_el, "Benchmark", XCCDF12_NS)
    THEN Err("Unexpected element '" \o benchmark_el.name
             \o "', expected xccdf:Benchmark")
    ELSE LET a == Benchmark_attrs(benchmark_el) IN
    IF ~IsOk(a) THEN a
    ELSE Benchmark_build(a.val,
                         Benchmark_children(children(benchmark_el), 1, Ok(Benchmark_empty)))

(***************************************************************************)
(* sds.rs                                                                  *)
(***************************************************************************)
SCAP12_NS == "http://scap.nist.gov/schema/scap/source/1.2"

DSIG_NS == "http://scap.nist.gov/schema/xml-dsig/1.0"

CAT_NS == "urn:oasis:names:tc:entity:xmlns:xml:catalog"

CatURI_from_xml(el) ==
    LET name == require_attr(el, "name") IN
    IF ~IsOk(name) THEN name
    ELSE LET uri == require_attr(el, "uri") IN
    IF ~IsOk(uri) THEN uri
    ELSE Ok([name |-> name.val, uri |-> uri.val])

RewriteURI_from_xml(el) ==
    LET uri_start_string == require_attr(el, "uriStartString") IN
    IF ~IsOk(uri_start_string) THEN uri_start_string
    ELSE LET rewrite_prefix == require_attr(el, "rewritePrefix") IN
    IF ~IsOk(rewrite_prefix) THEN rewrite_prefix
    ELSE Ok([uri_start_string |-> uri_start_string.val,
             rewrite_prefix |-> rewrite_prefix.val])

\* The message of the last arm names the catalog (el), not the child.
Catalog_child(el, acc, child) ==
    IF is(child, "uri", CAT_NS) THEN Push(acc, "uris", CatURI_from_xml(child))
    ELSE IF is(child, "rewriteURI", CAT_NS)
    THEN Push(acc, "rewrite_uris", RewriteURI_from_xml(child))
    ELSE Err("Unexpected element '" \o el.name
             \o "', expected either 'uri' or 'rewriteURI'")

RECURSIVE Catalog_children(_, _, _, _)
Catalog_children(el, ch, i, acc) ==
    IF ~IsOk(acc) \/ i > Len(ch) THEN acc
    ELSE Catalog_children(el, ch, i + 1, Catalog_child(el, acc.val, ch[i]))

Catalog_from_xml(el) ==
    IF ~is(el, "catalog", CAT_NS)
    THEN Err("Unexpected element '" \o el.name \o "'")
    ELSE Catalog_children(el, children(el), 1,
                          Ok([uris |-> <<>>, rewrite_uris |-> <<>>]))

\* catalog = Some(Catalog::from_xml(catalog_el)?)
Catalog_some(r) == IF IsOk(r) THEN Ok(Some(r.val)) ELSE r

ComponentRef_build(a, catalog) ==
    IF ~IsOk(catalog) THEN catalog ELSE Ok(a @@ [catalog |-> catalog.val])

ComponentRef_from_xml(el) ==
    IF ~is(el, "component-ref", SCAP12_NS)
    THEN Err("Unexpected element '" \o el.name \o "'")
    ELSE LET id == require_attr(el, "id") IN
    IF ~IsOk(id) THEN id
    ELSE LET href == require_attr(el, "xlink:href") IN
    IF ~IsOk(href) THEN href
    ELSE LET catalog_el == get_child(el, "catalog", CAT_NS) IN
         ComponentRef_build(
             [id |-> id.val, type_ |-> get_attr(el, "xlink:type"), href |-> href.val],
             IF catalog_el # None THEN Catalog_some(Catalog_from_xml(catalog_el[1]))
             ELSE Ok(None))

\* component_ref_vec.push(ComponentRef::from_xml(component_ref_el)?)
component_ref_push(vec, r) == IF IsOk(r) THEN Ok(Append(vec, r.val)) ELSE r

RECURSIVE component_refs(_, _, _)
component_refs(ch, i, acc) ==
    IF ~IsOk(acc) \/ i > Len(ch) THEN acc
    ELSE component_refs(ch, i + 1,
                        component_ref_push(acc.val, ComponentRef_from_xml(ch[i])))

get_component_ref_vec(data_stream_el, component_name) ==
    LET component_el == get_child(data_stream_el, component_name, SCAP12_NS) IN
    IF component_el # None THEN component_refs(children(component_el[1]), 1, Ok(<<>>))
    ELSE Ok(<<>>)

use_cases == <<"CONFIGURATION", "VULNERABILITY", "INVENTORY", "OTHER">>

scap_versions == <<"1.0", "1.1", "1.2", "1.3">>

DataStream_from_xml(el) ==
    LET id == require_attr(el, "id") IN
    IF ~IsOk(id) THEN id
    ELSE LET use_case == require_attr_options(el, "use-case", use_cases) IN
    IF ~IsOk(use_case) THEN use_case
    ELSE LET scap_version == require_attr_options(el, "scap-version", scap_versions) IN
    IF ~IsOk(scap_version) THEN scap_version
    ELSE LET dictionaries == get_component_ref_vec(el, "dictionaries") IN
    IF ~IsOk(dictionaries) THEN dictionaries
    ELSE LET checklists == get_component_ref_vec(el, "checklists") IN
    IF ~IsOk(checklists) THEN checklists
    ELSE LET checks == get_component_ref_vec(el, "checks") IN
    IF ~IsOk(checks) THEN checks
    ELSE LET extended_components == get_component_ref_vec(el, "extended-components") IN
    IF ~IsOk(extended_components) THEN extended_components
    ELSE Ok([id |-> id.val,
             use_case |-> use_case.val,
             scap_version |-> scap_version.val,
             timestamp |-> get_attr(el, "timestamp"),
             dictionaries |-> dictionaries.val,
             checklists |-> checklists.val,
             checks |-> checks.val,
             extended_components |-> extended_components.val])

XCCDFBenchmark(b) == [variant |-> "XCCDFBenchmark", benchmark |-> b]

NotImplemented == [variant |-> "NotImplemented"]

\* ComponentContent::XCCDFBenchmark(xccdf::Benchmark::from_xml(component)?)
XCCDFBenchmark_of(b) == IF IsOk(b) THEN Ok(XCCDFBenchmark(b.val)) ELSE b

\* Mutant: the payload name compared with the wrong spelling.
Component_content_lowercase(component) ==
    IF component.ns = XCCDF12_NS /\ component.name = "benchmark"
    THEN XCCDFBenchmark_of(Benchmark_from_xml(component))
    ELSE Ok(NotImplemented)

\* Mutant: the payload is told by its local name alone.
Component_content_by_name(component) ==
    IF component.name = "Benchmark"
    THEN XCCDFBenchmark_of(Benchmark_from_xml(component))
    ELSE Ok(NotImplemented)

\* The payload is el.children().next(): the first child, whatever follows it.
Component_content(component) ==
    IF component.ns = XCCDF12_NS /\ component.name = "Benchmark"
    THEN XCCDFBenchmark_of(Benchmark_from_xml(component))
    ELSE Ok(NotImplemented)

Component_build(a, content) ==
    IF ~IsOk(content) THEN content ELSE Ok(a @@ [content |-> content.val])

Component_from_xml(el) ==
    LET id == require_attr(el, "id") IN
    IF ~IsOk(id) THEN id
    ELSE LET timestamp == require_attr(el, "timestamp") IN
    IF ~IsOk(timestamp) THEN timestamp
    ELSE IF Len(children(el)) > 0
    THEN LET component == children(el)[1] IN
         Component_build(
             [id |-> id.val,
              timestamp |-> timestamp.val,
              component_name |-> component.name,
              component_ns |-> component.ns],
             Component_content(component))
    ELSE Err("component '" \o id.val \o "' doesn't have any child element")

ExtendedComponent_from_xml(el) ==
    LET id == require_attr(el, "id") IN
    IF ~IsOk(id) THEN id
    ELSE LET timestamp == require_attr(el, "timestamp") IN
    IF ~IsOk(timestamp) THEN timestamp
    ELSE Ok([id |-> id.val, timestamp |-> timestamp.val])

Signature_from_xml(el) ==
    LET id == require_attr(el, "id") IN
    IF ~IsOk(id) THEN id ELSE Ok([id |-> id.val])

DataStreamCollection_empty ==
    [data_streams |-> <<>>, components |-> <<>>, extended_components |-> <<>>,
     signatures |-> <<>>]

\* Mutant: the children are told apart by local name alone.
DataStreamCollection_child_by_name(acc, child) ==
    IF child.name = "data-stream"
    THEN Push(acc, "data_streams", DataStream_from_xml(child))
    ELSE IF child.name = "component"
    THEN Push(acc, "components", Component_from_xml(child))
    ELSE IF child.name = "extended-component"
    THEN Push(acc, "extended_components", ExtendedComponent_from_xml(child))
    ELSE IF child.name = "Signature"
    THEN Push(acc, "signatures", Signature_from_xml(child))
    ELSE Ok(acc)

\* One turn of the loop over root.children(): a child that is none of the four
\* recognised elements falls through every arm and leaves the buckets alone.
DataStreamCollection_child(acc, child) ==
    IF is(child, "data-stream", SCAP12_NS)
    THEN Push(acc, "data_streams", DataStream_from_xml(child))
    ELSE IF is(child, "component", SCAP12_NS)
    THEN Push(acc, "components", Component_from_xml(child))
    ELSE IF is(child, "extended-component", SCAP12_NS)
    THEN Push(acc, "extended_components", ExtendedComponent_from_xml(child))
    ELSE IF is(child, "Signature", DSIG_NS)
    THEN Push(acc, "signatures", Signature_from_xml(child))
    ELSE Ok(acc)

RECURSIVE DataStreamCollection_children(_, _, _)
DataStreamCollection_children(ch, i, acc) ==
    IF ~IsOk(acc) \/ i > Len(ch) THEN acc
    ELSE DataStreamCollection_children(ch, i + 1, DataStreamCollection_child(acc.val, ch[i]))

no_data_stream ==
    "The 'data-stream-collection' element needs to have at least 1 child 'data-stream' element."

no_component ==
    "The 'data-stream-collection' element needs to have at least 1 child 'component' element."

\* Mutant: the two cardinality checks in the other order.
DataStreamCollection_build_component_first(a, c) ==
    IF ~IsOk(c) THEN c
    ELSE IF Len(c.val.components) < 1 THEN Err(no_component)
    ELSE IF Len(c.val.data_streams) < 1 THEN Err(no_data_stream)
    ELSE Ok(a @@ c.val)

\* After the child pass (c is its outcome, an error of it is passed on): the
\* two cardinality checks, then the built value.
DataStreamCollection_build(a, c) ==
    IF ~IsOk(c) THEN c
    ELSE IF Len(c.val.data_streams) < 1 THEN Err(no_data_stream)
    ELSE IF Len(c.val.components) < 1 THEN Err(no_component)
    ELSE Ok(a @@ c.val)

\* From the attributes on: what follows the namespace check.
DataStreamCollection_body(root) ==
    LET id == require_attr(root, "id") IN
    IF ~IsOk(id) THEN id
    ELSE LET schematron_version == require_attr(root, "schematron-version") IN
    IF ~IsOk(schematron_version) THEN schematron_version
    ELSE DataStreamCollection_build(
             [id |-> id.val, schematron_version |-> schematron_version.val],
             DataStreamCollection_children(children(root), 1,
                                           Ok(DataStreamCollection_empty)))

wrong_namespace(root) ==
    Err("Wrong namespace '" \o root.ns \o "', expected '" \o SCAP12_NS)

\* Mutant: the namespace is checked after the id attribute is required.
DataStreamCollection_from_xml_id_first(root) ==
    LET id == require_attr(root, "id") IN
    IF ~IsOk(id) THEN id
    ELSE IF root.ns # SCAP12_NS THEN wrong_namespace(root)
    ELSE DataStreamCollection_body(root)

DataStreamCollection_from_xml(root) ==
    IF root.ns # SCAP12_NS THEN wrong_namespace(root)
    ELSE DataStreamCollection_body(root)

(***************************************************************************)
(* The element trees the operations are applied to.  Every tree is one the *)
(* XML reader can hand over: names, namespaces and attribute values are    *)
(* free, text nodes may sit between the child elements.                    *)
(***************************************************************************)
MaxRootChildren == 3

OTHER_NS == "urn:example:other"

SeqsUpTo(S, n) == UNION {[1..k -> S] : k \in 0..n}

Attr1(a, v) == a :> v

Attr2(a, v, b, w) == (a :> v) @@ (b :> w)

Attr3(a, v, b, w, c, x) == (a :> v) @@ (b :> w) @@ (c :> x)

\* XCCDF leaves
status_el(s) == Elem("status", XCCDF12_NS, NoAttrs, <<Text(s)>>)

version_el == Elem("version", XCCDF12_NS, NoAttrs, <<Text("1.0")>>)

title_el == Elem("title", XCCDF12_NS, NoAttrs, <<Text("Title")>>)

select_el(selected) ==
    Elem("select", XCCDF12_NS, Attr2("idref", "r1", "selected", selected), <<>>)

profile_el(nodes) == Elem("Profile", XCCDF12_NS, Attr1("id", "p1"), nodes)

benchmark_el(attrs, nodes) == Elem("Benchmark", XCCDF12_NS, attrs, nodes)

minimal_benchmark == benchmark_el(Attr1("id", "b1"), <<status_el("draft"), version_el>>)

\* Source data stream parts
component_ref_el(attrs, nodes) == Elem("component-ref", SCAP12_NS, attrs, nodes)

ref_ok == component_ref_el(Attr2("id", "ref1", "xlink:href", "#c1"), <<>>)

container_el(name, nodes) == Elem(name, SCAP12_NS, NoAttrs, nodes)

data_stream_el(attrs, nodes) == Elem("data-stream", SCAP12_NS, attrs, nodes)

ds_attrs_ok == Attr3("id", "ds1", "use-case", "OTHER", "scap-version", "1.2")

component_el(attrs, nodes) == Elem("component", SCAP12_NS, attrs, nodes)

comp_attrs_ok == Attr2("id", "c1", "timestamp", "2020-01-01T00:00:00")

ds_ok == data_stream_el(ds_attrs_ok, <<container_el("checklists", <<ref_ok>>)>>)

ds_bad_use_case ==
    data_stream_el(Attr3("id", "ds2", "use-case", "BOGUS", "scap-version", "1.2"), <<>>)

\* Two failing containers, the later-read one first in the document.
ds_two_bad ==
    data_stream_el(ds_attrs_ok,
        <<container_el("checklists", <<Elem("note", SCAP12_NS, NoAttrs, <<>>)>>),
          container_el("dictionaries",
                       <<component_ref_el(Attr1("xlink:href", "#c1"), <<>>)>>)>>)

ds_foreign == Elem("data-stream", OTHER_NS, NoAttrs, <<>>)

comp_ok == component_el(comp_attrs_ok, <<minimal_benchmark>>)

comp_no_status ==
    component_el(comp_attrs_ok, <<benchmark_el(Attr1("id", "b2"), <<version_el>>)>>)

comp_bad_select ==
    component_el(comp_attrs_ok,
        <<benchmark_el(Attr1("id", "b3"),
            <<status_el("draft"), version_el,
              profile_el(<<title_el, select_el("maybe")>>)>>)>>)

comp_empty == component_el(Attr2("id", "c2", "timestamp", "2020-01-01T00:00:00"), <<>>)

comp_foreign == Elem("component", OTHER_NS, NoAttrs, <<>>)

ext_no_timestamp == Elem("extended-component", SCAP12_NS, Attr1("id", "e1"), <<>>)

sig_ok == Elem("Signature", DSIG_NS, Attr1("id", "s1"), <<>>)

sig_foreign == Elem("Signature", SCAP12_NS, NoAttrs, <<>>)

unknown_el == Elem("note", SCAP12_NS, NoAttrs, <<>>)

RootPool ==
    {ds_ok, ds_bad_use_case, ds_two_bad, ds_foreign, comp_ok, comp_no_status,
     comp_bad_select, comp_empty, comp_foreign, ext_no_timestamp, sig_ok,
     sig_foreign, unknown_el, Text(" ")}

root_attrs_ok == Attr2("id", "dsc1", "schematron-version", "1.2")

RootHeads ==
    {<<SCAP12_NS, root_attrs_ok>>,
     <<SCAP12_NS, Attr1("id", "dsc1")>>,
     <<SCAP12_NS, Attr1("schematron-version", "1.2")>>,
     <<OTHER_NS, root_attrs_ok>>,
     <<OTHER_NS, NoAttrs>>}

root_el(head, nodes) == Elem("data-stream-collection", head[1], head[2], nodes)

RootDocs ==
    {root_el(h, nodes) : h \in RootHeads, nodes \in SeqsUpTo(RootPool, MaxRootChildren)}

\* The minimal documents: one data-stream, one component wrapping a Benchmark
\* with one status and one version, over every allowed value of the
\* enumerated attributes and of the status text.
Range(f) == {f[i] : i \in DOMAIN f}

MinimalDataStreams ==
    {data_stream_el(Attr3("id", "ds1", "use-case", u, "scap-version", v) @@ ts, nodes) :
        u \in Range(use_cases), v \in Range(scap_versions),
        ts \in {NoAttrs, Attr1("timestamp", "2020-01-01T00:00:00")},
        nodes \in {<<>>, <<container_el("checklists", <<ref_ok>>)>>}}

MinimalBenchmarks ==
    {benchmark_el(Attr1("id", "b1") @@ r, nodes) :
        r \in {NoAttrs, Attr1("resolved", "true"), Attr1("resolved", "false")},
        nodes \in UNION {{<<status_el(st), version_el>>, <<version_el, status_el(st)>>} :
                            st \in Range(allowed_statuses)}}

MinimalDocs ==
    UNION {{root_el(<<SCAP12_NS, root_attrs_ok>>, <<d, component_el(comp_attrs_ok, <<b>>)>>),
            root_el(<<SCAP12_NS, root_attrs_ok>>, <<component_el(comp_attrs_ok, <<b>>), d>>)} :
              d \in MinimalDataStreams, b \in MinimalBenchmarks}

(***************************************************************************)
(* The state machine: an element is handed to a mapping operation, which   *)
(* returns once.                                                           *)
(***************************************************************************)
TypeOK ==
    /\ pc \in {"ready", "done"}
    /\ result.kind \in {"None", "Ok", "Err", "Panic"}
    /\ (pc = "ready") = (result = NoResult)

Init ==
    /\ op = "DataStreamCollection"
    /\ input \in RootDocs \cup MinimalDocs
    /\ result = NoResult
    /\ pc = "ready"

MapDataStreamCollection ==
    /\ pc = "ready"
    /\ op = "DataStreamCollection"
    /\ result' = DataStreamCollection_from_xml(input)
    /\ pc' = "done"
    /\ UNCHANGED <<op, input>>

Next == MapDataStreamCollection

Spec == Init /\ [][Next]_vars

(***************************************************************************)
(* Properties of DataStreamCollection::from_xml (under Spec)               *)
(***************************************************************************)
Done == pc = "done"

HasAttr(el, a) == a \in DOMAIN el.attrs

RootHeaderOk(root) ==
    root.ns = SCAP12_NS /\ HasAttr(root, "id") /\ HasAttr(root, "schematron-version")

HasChild(el, name, ns) == \E i \in 1..Len(children(el)) : is(children(el)[i], name, ns)

\* C1: a root whose namespace is not the SCAP 1.2 namespace gets the
\* namespace-mismatch error, whatever its attributes and children are.
C1_WrongNamespaceFirst ==
    (Done /\ input.ns # "http://scap.nist.gov/schema/scap/source/1.2")
        => result = Err("Wrong namespace '" \o input.ns
                        \o "', expected 'http://scap.nist.gov/schema/scap/source/1.2")

\* A root in a foreign namespace that also lacks both attributes and holds a
\* child whose own mapping would fail: the namespace error is what comes back.
C1_Witness ==
    /\ Done
    /\ input.ns # SCAP12_NS
    /\ ~HasAttr(input, "id")
    /\ ~HasAttr(input, "schematron-version")
    /\ \E i \in 1..Len(input.nodes) : input.nodes[i] = comp_empty
    /\ IsErr(result)

\* The result of the sub-mapper the child pass hands one root child to
\* (Ok for a child it skips).
RootChildResult(child) == DataStreamCollection_child(DataStreamCollection_empty, child)

RootChildrenMap(root) ==
    \A i \in 1..Len(children(root)) : IsOk(RootChildResult(children(root)[i]))

\* C2 as stated: no data-stream child gives the 'data-stream' cardinality
\* error, and no component child gives the 'component' cardinality error,
\* for every document.
C2_AsStated ==
    Done =>
        /\ ~HasChild(input, "data-stream", SCAP12_NS) => result = Err(no_data_stream)
        /\ ~HasChild(input, "component", SCAP12_NS) => result = Err(no_component)

\* C2 amended: when the root passes the namespace and attribute checks and
\* every recognised child maps, no data-stream child gives the 'data-stream'
\* cardinality error; at least one data-stream and no component child gives
\* the 'component' cardinality error.
C2_Cardinality ==
    (Done /\ RootHeaderOk(input) /\ RootChildrenMap(input)) =>
        /\ ~HasChild(input, "data-stream", SCAP12_NS)
             => result = Err("The 'data-stream-collection' element needs to have at least 1 child 'data-stream' element.")
        /\ (HasChild(input, "data-stream", SCAP12_NS)
              /\ ~HasChild(input, "component", SCAP12_NS))
             => result = Err("The 'data-stream-collection' element needs to have at least 1 child 'component' element.")

\* A document with a data-stream and no component, failing on the latter.
C2_Witness ==
    /\ Done
    /\ RootHeaderOk(input)
    /\ HasChild(input, "data-stream", SCAP12_NS)
    /\ ~HasChild(input, "component", SCAP12_NS)
    /\ result = Err(no_component)

ContainerNames == {"dictionaries", "checklists", "checks", "extended-components"}

IsContainer(c) == c.ns = SCAP12_NS /\ c.name \in ContainerNames

\* The grandchildren of a data-stream under its containers, in document order.
RECURSIVE DocOrderRefs(_, _)
DocOrderRefs(ch, i) ==
    IF i > Len(ch) THEN <<>>
    ELSE (IF IsContainer(ch[i]) THEN children(ch[i]) ELSE <<>>) \o DocOrderRefs(ch, i + 1)

RECURSIVE FirstFailingRef(_, _)
FirstFailingRef(refs, k) ==
    IF k > Len(refs) THEN None
    ELSE IF ~IsOk(ComponentRef_from_xml(refs[k])) THEN Some(ComponentRef_from_xml(refs[k]))
    ELSE FirstFailingRef(refs, k + 1)

\* What a document-order traversal reports for a failing data-stream: the
\* failure of its attributes, else that of the first failing grandchild.
DataStreamDocOrder(d) ==
    LET attrs_only == DataStream_from_xml([d EXCEPT !.nodes = <<>>])
        first == FirstFailingRef(DocOrderRefs(children(d), 1), 1)
    IN  IF ~IsOk(attrs_only) THEN attrs_only
        ELSE IF first # None THEN first[1]
        ELSE DataStream_from_xml(d)

DocOrderResult(child) ==
    IF is(child, "data-stream", SCAP12_NS) THEN DataStreamDocOrder(child)
    ELSE RootChildResult(child)

\* C3 as stated: the call returns exactly the error of the violation met
\* first in document order, and returns Ok only when no sub-mapper failed.
C3_FirstViolationWins ==
    (Done /\ RootHeaderOk(input)) =>
        LET ch == children(input) IN
        /\ \A i \in 1..Len(ch) :
              (/\ ~IsOk(RootChildResult(ch[i]))
               /\ \A j \in 1..(i - 1) : IsOk(RootChildResult(ch[j])))
              => (IsErr(result) /\ result = DocOrderResult(ch[i]))
        /\ IsOk(result) => RootChildrenMap(input)

\* C4 as stated: the call completes with a built value or an error value.
C4_NeverAbrupt == Done => (IsOk(result) \/ IsErr(result))

ValidComponentRef(r) ==
    /\ is(r, "component-ref", SCAP12_NS)
    /\ HasAttr(r, "id")
    /\ HasAttr(r, "xlink:href")
    /\ children(r) = <<>>

ValidMinimalDataStream(d) ==
    /\ is(d, "data-stream", SCAP12_NS)
    /\ HasAttr(d, "id")
    /\ HasAttr(d, "use-case")
    /\ d.attrs["use-case"] \in {"CONFIGURATION", "VULNERABILITY", "INVENTORY", "OTHER"}
    /\ HasAttr(d, "scap-version")
    /\ d.attrs["scap-version"] \in {"1.0", "1.1", "1.2", "1.3"}
    /\ \A i \in 1..Len(children(d)) :
          /\ IsContainer(children(d)[i])
          /\ \A k \in 1..Len(children(children(d)[i])) :
                ValidComponentRef(children(children(d)[i])[k])

ValidStatus(e) ==
    /\ e.name = "status"
    /\ \E st \in {"incomplete", "draft", "interim", "accepted", "deprecated"} :
          e.nodes = <<Text(st)>>

ValidMinimalBenchmark(b) ==
    /\ is(b, "Benchmark", XCCDF12_NS)
    /\ HasAttr(b, "id")
    /\ HasAttr(b, "resolved") => b.attrs["resolved"] \in {"true", "false"}
    /\ Len(children(b)) = 2
    /\ \E i, j \in 1..2 :
          /\ i # j
          /\ ValidStatus(children(b)[i])
          /\ children(b)[j].name = "version"

ValidMinimalComponent(c) ==
    /\ is(c, "component", SCAP12_NS)
    /\ HasAttr(c, "id")
    /\ HasAttr(c, "timestamp")
    /\ Len(children(c)) = 1
    /\ ValidMinimalBenchmark(children(c)[1])

IsValidMinimal(root) ==
    /\ RootHeaderOk(root)
    /\ Len(children(root)) = 2
    /\ \E i, j \in 1..2 :
          /\ i # j
          /\ ValidMinimalDataStream(children(root)[i])
          /\ ValidMinimalComponent(children(root)[j])

\* C5: a valid minimal document maps to a collection with exactly one data
\* stream and exactly one component, whose content is the XCCDFBenchmark
\* variant.
C5_MinimalDocumentMaps ==
    (Done /\ IsValidMinimal(input)) =>
        /\ IsOk(result)
        /\ Len(result.val.data_streams) = 1
        /\ Len(result.val.components) = 1
        /\ result.val.components[1].content.variant = "XCCDFBenchmark"

\* A minimal document with the component before the data stream, a timestamp
\* and a `resolved` attribute, mapped.
C5_Witness ==
    /\ Done
    /\ IsValidMinimal(input)
    /\ is(children(input)[1], "component", SCAP12_NS)
    /\ HasAttr(children(input)[2], "timestamp")
    /\ HasAttr(children(children(input)[1])[1], "resolved")
    /\ IsOk(result)
    /\ result.val.components[1].content.benchmark.resolved

Recognised(n) ==
    IsElement(n) =>
        \/ is(n, "data-stream", SCAP12_NS)
        \/ is(n, "component", SCAP12_NS)
        \/ is(n, "extended-component", SCAP12_NS)
        \/ is(n, "Signature", DSIG_NS)

\* The root without the child elements that are none of the four.
Strip(root) == [root EXCEPT !.nodes = SelectSeq(@, Recognised)]

\* C7: children of the root that are none of data-stream, component,
\* extended-component (SCAP namespace) or Signature (dsig namespace) do not
\* change the result: it is that of the document without them.
C7_SkippedChildrenNoEffect ==
    Done => result = DataStreamCollection_from_xml(Strip(input))

\* A mapped document that carries a data-stream of a foreign namespace, which
\* would fail if it were handed to the data-stream mapper.
C7_Witness ==
    /\ Done
    /\ \E i \in 1..Len(input.nodes) : input.nodes[i] = ds_foreign
    /\ ~IsOk(DataStream_from_xml(ds_foreign))
    /\ Strip(input) # input
    /\ IsOk(result)

(***************************************************************************)
(* Benchmark::from_xml applied to a Benchmark element (SpecBenchmark)      *)
(***************************************************************************)
MaxBenchChildren == 3

platform_specification_el ==
    Elem("platform-specification", XCCDF12_NS, NoAttrs, <<Text("cpe")>>)

notice_no_id == Elem("notice", XCCDF12_NS, NoAttrs, <<Text("Notice")>>)

rule_el(attrs, nodes) == Elem("Rule", XCCDF12_NS, attrs, nodes)

group_el(attrs, nodes) == Elem("Group", XCCDF12_NS, attrs, nodes)

value_el == Elem("Value", XCCDF12_NS, Attr1("id", "v1"), <<>>)

rule_ok == rule_el(Attr1("id", "r1"), <<title_el>>)

BenchPool ==
    {status_el("draft"), status_el("final"), version_el, platform_specification_el,
     title_el, profile_el(<<title_el>>), profile_el(<<>>), rule_ok, notice_no_id,
     unknown_el, Text(" ")}

BenchHeads ==
    {<<XCCDF12_NS, Attr1("id", "b1")>>,
     <<XCCDF12_NS, Attr3("id", "b2", "resolved", "true", "style", "SCAP_1.2")>>,
     <<XCCDF12_NS, Attr2("id", "b3", "resolved", "maybe")>>,
     <<XCCDF12_NS, NoAttrs>>,
     <<OTHER_NS, Attr1("id", "b1")>>}

BenchDocs ==
    {Elem("Benchmark", h[1], h[2], nodes) :
        h \in BenchHeads, nodes \in SeqsUpTo(BenchPool, MaxBenchChildren)}

InitBenchmark ==
    /\ op = "Benchmark"
    /\ input \in BenchDocs
    /\ result = NoResult
    /\ pc = "ready"

MapBenchmark ==
    /\ pc = "ready"
    /\ op = "Benchmark"
    /\ result' = Benchmark_from_xml(input)
    /\ pc' = "done"
    /\ UNCHANGED <<op, input>>

NextBenchmark == MapBenchmark

SpecBenchmark == InitBenchmark /\ [][NextBenchmark]_vars

CountName(ch, name) == Cardinality({i \in 1..Len(ch) : ch[i].name = name})

BenchHeaderOk(b) == is(b, "Benchmark", XCCDF12_NS) /\ IsOk(Benchmark_attrs(b))

\* The child pass gets through the first k children without a failure.
BenchPrefixOk(ch, k) ==
    IsOk(Benchmark_children(SubSeq(ch, 1, k), 1, Ok(Benchmark_empty)))

SecondOf(ch, i, name) ==
    ch[i].name = name /\ \E j \in 1..(i - 1) : ch[j].name = name

\* C6: a Benchmark maps only with at least one status, exactly one version
\* and at most one platform-specification; a second version or
\* platform-specification is a duplicate-element error where the child pass
\* meets it; a missing status, then a missing version, is reported after the
\* pass with the benchmark's id in the message.
C6_BenchmarkCardinality ==
    (Done /\ op = "Benchmark") =>
        LET ch == children(input) IN
        /\ IsOk(result) =>
              /\ CountName(ch, "status") >= 1
              /\ CountName(ch, "version") = 1
              /\ CountName(ch, "platform-specification") <= 1
        /\ BenchHeaderOk(input) =>
              /\ \A i \in 1..Len(ch) :
                    (SecondOf(ch, i, "version") /\ BenchPrefixOk(ch, i - 1))
                        => result = Err("Duplicate version elements")
              /\ \A i \in 1..Len(ch) :
                    (SecondOf(ch, i, "platform-specification") /\ BenchPrefixOk(ch, i - 1))
                        => result = Err("Duplicate platform elements")
              /\ (BenchPrefixOk(ch, Len(ch)) /\ CountName(ch, "status") = 0)
                    => result = Err("xccdf:Benchmark " \o input.attrs["id"]
                                    \o ": missing status element")
              /\ (/\ BenchPrefixOk(ch, Len(ch))
                  /\ CountName(ch, "status") > 0
                  /\ CountName(ch, "version") = 0)
                    => result = Err("xccdf:Benchmark " \o input.attrs["id"]
                                    \o ": missing version element")

\* A Benchmark with neither status nor version, reported for the status; the
\* cases of a duplicate met before a failing child are in the same run.
C6_MissingBothWitness ==
    /\ Done
    /\ op = "Benchmark"
    /\ BenchHeaderOk(input)
    /\ Len(children(input)) = 3
    /\ CountName(children(input), "status") = 0
    /\ CountName(children(input), "version") = 0
    /\ result = Err("xccdf:Benchmark b1: missing status element")

\* The second version met before a child that would fail on its own.
C6_DuplicateWitness ==
    /\ Done
    /\ op = "Benchmark"
    /\ BenchHeaderOk(input)
    /\ children(input) = <<version_el, version_el, unknown_el>>
    /\ result = Err("Duplicate version elements")

(***************************************************************************)
(* Component::from_xml applied to a component element (SpecComponent)      *)
(***************************************************************************)
MaxComponentChildren == 2

oval_el ==
    Elem("oval_definitions", "http://oval.mitre.org/XMLSchema/oval-definitions-5",
         NoAttrs, <<unknown_el>>)

ComponentPool ==
    {minimal_benchmark,
     benchmark_el(Attr1("id", "b2"), <<version_el>>),
     Elem("Benchmark", OTHER_NS, NoAttrs, <<unknown_el>>),
     Elem("Group", XCCDF12_NS, NoAttrs, <<unknown_el>>),
     oval_el,
     Text(" ")}

ComponentAttrs ==
    {comp_attrs_ok, Attr1("id", "c1"), Attr1("timestamp", "2020-01-01T00:00:00"), NoAttrs}

ComponentDocs ==
    {component_el(a, nodes) :
        a \in ComponentAttrs, nodes \in SeqsUpTo(ComponentPool, MaxComponentChildren)}

InitComponent ==
    /\ op = "Component"
    /\ input \in ComponentDocs
    /\ result = NoResult
    /\ pc = "ready"

MapComponent ==
    /\ pc = "ready"
    /\ op = "Component"
    /\ result' = Component_from_xml(input)
    /\ pc' = "done"
    /\ UNCHANGED <<op, input>>

NextComponent == MapComponent

SpecComponent == InitComponent /\ [][NextComponent]_vars

\* C8 as stated: a component maps only if it has exactly one child element,
\* and with no child it fails with an error that names its id.
C8_ExactlyOneChild ==
    (Done /\ op = "Component") =>
        /\ IsOk(result) => Len(children(input)) = 1
        /\ (HasAttr(input, "id") /\ HasAttr(input, "timestamp")
              /\ Len(children(input)) = 0)
             => result = Err("component '" \o input.attrs["id"]
                             \o "' doesn't have any child element")

(***************************************************************************)
(* DataStream::from_xml applied to a data-stream element (SpecDataStream)  *)
(***************************************************************************)
MaxContainers == 2

ref_no_href == component_ref_el(Attr1("id", "ref2"), <<>>)

ref_other == component_ref_el(Attr2("id", "ref3", "xlink:href", "#c2"), <<>>)

DataStreamPool ==
    {container_el("dictionaries", <<ref_ok>>),
     container_el("checklists", <<ref_ok>>),
     container_el("checklists", <<ref_no_href>>),
     container_el("checks", <<>>),
     container_el("checks", <<ref_other, ref_ok>>),
     container_el("extended-components", <<unknown_el>>),
     Elem("checklists", OTHER_NS, NoAttrs, <<unknown_el>>),
     unknown_el,
     Text(" ")}

OptAttr(a, values) == {NoAttrs} \cup {Attr1(a, v) : v \in values}

DataStreamAttrs ==
    {i @@ u @@ v :
        i \in OptAttr("id", {"ds1"}),
        u \in OptAttr("use-case", Range(use_cases) \cup {"BOGUS", "other"}),
        v \in OptAttr("scap-version", Range(scap_versions) \cup {"2.0"})}

DataStreamDocs ==
    {data_stream_el(a, nodes) :
        a \in DataStreamAttrs, nodes \in SeqsUpTo(DataStreamPool, MaxContainers)}

InitDataStream ==
    /\ op = "DataStream"
    /\ input \in DataStreamDocs
    /\ result = NoResult
    /\ pc = "ready"

MapDataStream ==
    /\ pc = "ready"
    /\ op = "DataStream"
    /\ result' = DataStream_from_xml(input)
    /\ pc' = "done"
    /\ UNCHANGED <<op, input>>

NextDataStream == MapDataStream

SpecDataStream == InitDataStream /\ [][NextDataStream]_vars

UseCaseSet == {"CONFIGURATION", "VULNERABILITY", "INVENTORY", "OTHER"}

ScapVersionSet == {"1.0", "1.1", "1.2", "1.3"}

UseCaseError(v) ==
    Err("Element 'data-stream' attribute 'use-case'='" \o v
        \o "', but expected one of [\"CONFIGURATION\", \"VULNERABILITY\", \"INVENTORY\", \"OTHER\"]")

ScapVersionError(v) ==
    Err("Element 'data-stream' attribute 'scap-version'='" \o v
        \o "', but expected one of [\"1.0\", \"1.1\", \"1.2\", \"1.3\"]")

BadValue(el, a, allowed) == HasAttr(el, a) /\ el.attrs[a] \notin allowed

EnumeratedAttributesKept ==
    IsOk(result) =>
        /\ result.val.use_case \in UseCaseSet
        /\ result.val.scap_version \in ScapVersionSet

\* C9 as stated: every data-stream whose use-case is outside the allowed set
\* fails with the error naming the value and the set, the same for
\* scap-version, and no DataStream is built with a value outside the sets.
C9_AsStated ==
    (Done /\ op = "DataStream") =>
        /\ BadValue(input, "use-case", UseCaseSet)
             => result = UseCaseError(input.attrs["use-case"])
        /\ BadValue(input, "scap-version", ScapVersionSet)
             => result = ScapVersionError(input.attrs["scap-version"])
        /\ EnumeratedAttributesKept

\* C9 amended: the use-case error is returned when the element has an id;
\* the scap-version error when it has an id and an allowed use-case; no
\* DataStream is built with a value outside the sets.
C9_EnumeratedAttributes ==
    (Done /\ op = "DataStream") =>
        /\ (HasAttr(input, "id") /\ BadValue(input, "use-case", UseCaseSet))
             => result = UseCaseError(input.attrs["use-case"])
        /\ (/\ HasAttr(input, "id")
            /\ HasAttr(input, "use-case")
            /\ input.attrs["use-case"] \in UseCaseSet
            /\ BadValue(input, "scap-version", ScapVersionSet))
             => result = ScapVersionError(input.attrs["scap-version"])
        /\ EnumeratedAttributesKept

\* A data-stream with an id, an allowed use-case, the scap-version 2.0 and a
\* container whose reference would fail: the scap-version error comes back.
C9_Witness ==
    /\ Done
    /\ op = "DataStream"
    /\ HasAttr(input, "id")
    /\ BadValue(input, "scap-version", ScapVersionSet)
    /\ \E i \in 1..Len(input.nodes) :
          input.nodes[i] = container_el("checklists", <<ref_no_href>>)
    /\ result = ScapVersionError("2.0")

(***************************************************************************)
(* Group::from_xml and Rule::from_xml applied to an element (SpecItem)     *)
(***************************************************************************)
MaxItemChildren == 2

ItemPool ==
    {title_el,
     status_el("final"),
     unknown_el,
     value_el,
     rule_ok,
     group_el(Attr1("id", "g2"), <<rule_el(NoAttrs, <<>>)>>),
     Elem("ident", XCCDF12_NS, NoAttrs, <<Text("CCE-1")>>),
     Text(" ")}

ItemOtherAttrs ==
    {NoAttrs,
     Attr1("abstract", "true"), Attr1("abstract", "maybe"),
     Attr1("hidden", "maybe"), Attr1("prohibitChanges", "maybe"),
     Attr1("selected", "false"), Attr1("selected", "maybe"),
     Attr1("weight", "0.5"), Attr1("weight", "heavy"),
     Attr1("role", "unscored"), Attr1("role", "bogus"),
     Attr1("rule", "unscored"), Attr1("rule", "bogus"),
     Attr1("severity", "high"), Attr1("severity", "bogus"),
     Attr1("multiple", "maybe"),
     Attr2("cluster-id", "cl1", "extends", "r0")}

ItemDocs ==
    {Elem(name, XCCDF12_NS, i @@ a, nodes) :
        name \in {"Group", "Rule"},
        i \in OptAttr("id", {"x1"}),
        a \in ItemOtherAttrs,
        nodes \in SeqsUpTo(ItemPool, MaxItemChildren)}

InitItem ==
    /\ input \in ItemDocs
    /\ op = input.name
    /\ result = NoResult
    /\ pc = "ready"

MapGroup ==
    /\ pc = "ready"
    /\ op = "Group"
    /\ result' = Group_from_xml(input)
    /\ pc' = "done"
    /\ UNCHANGED <<op, input>>

MapRule ==
    /\ pc = "ready"
    /\ op = "Rule"
    /\ result' = Rule_from_xml(input)
    /\ pc' = "done"
    /\ UNCHANGED <<op, input>>

NextItem == MapGroup \/ MapRule

SpecItem == InitItem /\ [][NextItem]_vars

\* C10: a Rule or Group without the id attribute fails with the missing-
\* required-attribute error naming id, whatever its other attributes and its
\* children are.
C10_MissingIdFirst ==
    (Done /\ op \in {"Group", "Rule"} /\ ~HasAttr(input, "id"))
        => result = Err("Element '" \o input.name
                        \o "' doesn't have required 'id' attribute")

\* A Group without id whose `abstract` is no boolean and whose child is
\* unknown to the Group mapper: the id is what is reported.
C10_Witness ==
    /\ Done
    /\ op = "Group"
    /\ ~HasAttr(input, "id")
    /\ HasAttr(input, "abstract")
    /\ input.attrs["abstract"] = "maybe"
    /\ children(input) = <<unknown_el>>
    /\ result = Err("Element 'Group' doesn't have required 'id' attribute")

(***************************************************************************)
(* utils.rs: the accessors applied on their own (SpecUtils)                *)
(***************************************************************************)
MaxHtmlNodes == 3

\* What a function that returns a plain value (no Result) hands back.
Returned(v) == [kind |-> "Returned", val |-> v]

markup_el(name, nodes) == Elem(name, XCCDF12_NS, NoAttrs, nodes)

br_el == markup_el("br", <<>>)

HtmlPool ==
    {Text("a"),
     Text("b\nc"),
     br_el,
     markup_el("em", <<Text("x")>>),
     markup_el("b", <<Text("y\nz")>>),
     markup_el("b", <<markup_el("i", <<Text("deep")>>)>>),
     markup_el("em", <<Text("p"), br_el, Text("q")>>),
     markup_el("span", <<>>)}

HtmlDocs ==
    {markup_el("description", nodes) : nodes \in SeqsUpTo(HtmlPool, MaxHtmlNodes)}

\* The elements and arguments the attribute accessors are called with: the
\* two elements of the unit tests and a Rule, each attribute present (also
\* with the empty value) or absent, and the option lists of the callers.
AccessorElements ==
    {Elem(n, "people", a, <<>>) :
        n \in {"person", "Rule"},
        a \in {NoAttrs, Attr1("name", "John"), Attr1("name", "Albert"),
               Attr1("name", ""), Attr1("login", "jdoe"),
               Attr2("name", "Peter", "role", "unscored"),
               Attr1("role", "bogus")}}

AccessorNames == {"name", "login", "role"}

AccessorOptions ==
    {<<"John", "Peter">>, <<"full", "unscored", "unchecked">>, <<"John">>, <<>>}

AccessorDefaults == {"John", "full", "Zed"}

RequireAttrArgs == [el : AccessorElements, attr : AccessorNames]

RequireAttrOptionsArgs ==
    [el : AccessorElements, attr : AccessorNames, options : AccessorOptions]

GetAttrDefaultOptionsArgs ==
    [el : AccessorElements, name : AccessorNames, default : AccessorDefaults,
     options : AccessorOptions]

InitUtils ==
    /\ \/ op = "html_to_string" /\ input \in HtmlDocs
       \/ op = "require_attr" /\ input \in RequireAttrArgs
       \/ op = "require_attr_options" /\ input \in RequireAttrOptionsArgs
       \/ op = "get_attr_default_options" /\ input \in GetAttrDefaultOptionsArgs
    /\ result = NoResult
    /\ pc = "ready"

ApplyHtmlToString ==
    /\ pc = "ready"
    /\ op = "html_to_string"
    /\ result' = Returned(html_to_string(input))
    /\ pc' = "done"
    /\ UNCHANGED <<op, input>>

ApplyRequireAttr ==
    /\ pc = "ready"
    /\ op = "require_attr"
    /\ result' = require_attr(input.el, input.attr)
    /\ pc' = "done"
    /\ UNCHANGED <<op, input>>

ApplyRequireAttrOptions ==
    /\ pc = "ready"
    /\ op = "require_attr_options"
    /\ result' = require_attr_options(input.el, input.attr, input.options)
    /\ pc' = "done"
    /\ UNCHANGED <<op, input>>

ApplyGetAttrDefaultOptions ==
    /\ pc = "ready"
    /\ op = "get_attr_default_options"
    /\ result' = get_attr_default_options(input.el, input.name, input.default,
                                          input.options)
    /\ pc' = "done"
    /\ UNCHANGED <<op, input>>

NextUtils ==
    \/ ApplyHtmlToString
    \/ ApplyRequireAttr
    \/ ApplyRequireAttrOptions
    \/ ApplyGetAttrDefaultOptions

SpecUtils == InitUtils /\ [][NextUtils]_vars

\* The flattening the claim describes: a text node with its newlines made
\* spaces, a newline for br, and for any other element the flattening of its
\* own nodes, newlines made spaces.
RECURSIVE FlattenDeep(_, _)
FlattenDeep(nodes, i) ==
    IF i > Len(nodes) THEN ""
    ELSE (IF IsText(nodes[i]) THEN replace_newlines(nodes[i].s)
          ELSE IF nodes[i].name = "br" THEN "\n"
          ELSE replace_newlines(FlattenDeep(nodes[i].nodes, 1)))
         \o FlattenDeep(nodes, i + 1)

\* C11 as stated: html_to_string returns the document-order concatenation in
\* which every child element other than br contributes the text of all its
\* descendants, at any depth.
C11_FlattensRecursively ==
    (Done /\ op = "html_to_string")
        => result = Returned(FlattenDeep(input.nodes, 1))

\* C12: require_attr returns the value of a present attribute (the empty
\* value included) and, for an absent one, the error
\* Element '<name>' doesn't have required '<attr>' attribute.
C12_RequireAttr ==
    (Done /\ op = "require_attr") =>
        /\ HasAttr(input.el, input.attr)
             => result = Ok(input.el.attrs[input.attr])
        /\ ~HasAttr(input.el, input.attr)
             => result = Err("Element '" \o input.el.name
                             \o "' doesn't have required '" \o input.attr
                             \o "' attribute")

\* The unit test's case next to a present attribute that is not the one asked.
C12_Witness ==
    /\ Done
    /\ op = "require_attr"
    /\ input.el.name = "person"
    /\ input.el.attrs = Attr1("login", "jdoe")
    /\ input.attr = "name"
    /\ result = Err("Element 'person' doesn't have required 'name' attribute")

\* The allowed list as the message shows it, written out for each list.
ListText(options) ==
    CASE options = <<"John", "Peter">> -> "[\"John\", \"Peter\"]"
      [] options = <<"full", "unscored", "unchecked">>
            -> "[\"full\", \"unscored\", \"unchecked\"]"
      [] options = <<"John">> -> "[\"John\"]"
      [] options = <<>> -> "[]"

Member(options, v) == v \in Range(options)

MismatchError(el, a, v, options) ==
    Err("Element '" \o el.name \o "' attribute '" \o a \o "'='" \o v
        \o "', but expected one of " \o ListText(options))

\* The value get_attr_default_options resolves: the attribute, else the default.
Resolved ==
    IF HasAttr(input.el, input.name) THEN input.el.attrs[input.name]
    ELSE input.default

\* C13: both accessors return Ok(v) only for a member v of the allowed list;
\* get_attr_default_options tests the default too; a mismatch names element,
\* attribute, value and list; require_attr_options on an absent attribute
\* gives the missing-attribute error.
C13_OptionsChecked ==
    /\ (Done /\ op = "require_attr_options") =>
          IF ~HasAttr(input.el, input.attr)
          THEN result = Err("Element '" \o input.el.name
                            \o "' doesn't have required '" \o input.attr
                            \o "' attribute")
          ELSE IF Member(input.options, input.el.attrs[input.attr])
          THEN result = Ok(input.el.attrs[input.attr])
          ELSE result = MismatchError(input.el, input.attr,
                                      input.el.attrs[input.attr], input.options)
    /\ (Done /\ op = "get_attr_default_options") =>
          IF Member(input.options, Resolved) THEN result = Ok(Resolved)
          ELSE result = MismatchError(input.el, input.name, Resolved, input.options)

\* An absent attribute whose default is not in the list: the default is what
\* the error names.
C13_Witness ==
    /\ Done
    /\ op = "get_attr_default_options"
    /\ ~HasAttr(input.el, input.name)
    /\ input.el.name = "Rule"
    /\ input.name = "role"
    /\ input.default = "Zed"
    /\ result = Err("Element 'Rule' attribute 'role'='Zed', but expected one of [\"full\", \"unscored\", \"unchecked\"]")

(***************************************************************************)
(* DataStreamCollection::from_xml applied twice to one tree (SpecTwice)    *)
(***************************************************************************)
\* Mutant: the model carries the number of the call that built it.
from_xml_call_numbered(root, n) ==
    Push(DataStreamCollection_empty, "signatures", Ok([id |-> IF n = 1 THEN "1" ELSE "2"]))

\* The n-th call of from_xml(&root): the mapper takes the borrowed tree and
\* nothing else, the number of the call is no input of it.
from_xml_call(root, n) == DataStreamCollection_from_xml(root)

InitTwice ==
    /\ op = "DataStreamCollection twice"
    /\ input \in RootDocs \cup MinimalDocs
    /\ result = NoResult
    /\ pc = "ready"

MapFirst ==
    /\ pc = "ready"
    /\ op = "DataStreamCollection twice"
    /\ result' = [first |-> from_xml_call(input, 1)]
    /\ pc' = "once"
    /\ UNCHANGED <<op, input>>

\* A panic of the first call unwinds its caller: there is no second call.
MapSecond ==
    /\ pc = "once"
    /\ op = "DataStreamCollection twice"
    /\ ~IsPanic(result.first)
    /\ result' = [first |-> result.first, second |-> from_xml_call(input, 2)]
    /\ pc' = "done"
    /\ UNCHANGED <<op, input>>

NextTwice == MapFirst \/ MapSecond

SpecTwice == InitTwice /\ [][NextTwice]_vars

NoOutput == [lines |-> <<>>, panic |-> None]

println(out, line) == [out EXCEPT !.lines = Append(@, line)]

panic(out, msg) == [out EXCEPT !.panic = Some(msg)]

first_title(profile) ==
    IF Len(profile.titles) > 0 THEN profile.titles[1].title ELSE "Unknown"

first_description(profile) ==
    IF Len(profile.descriptions) > 0 THEN profile.descriptions[1].text ELSE "Unknown"

Profile_print(profile, out) ==
    println(println(println(println(out,
        "* " \o first_title(profile)),
        "ID: " \o profile.id),
        first_description(profile)),
        "")

RECURSIVE Benchmark_print_profiles(_, _, _)
Benchmark_print_profiles(profiles, i, out) ==
    IF i > Len(profiles) THEN out
    ELSE Benchmark_print_profiles(profiles, i + 1, Profile_print(profiles[i], out))

Benchmark_print_information(self, out) ==
    IF Len(self.profiles) > 0
    THEN Benchmark_print_profiles(self.profiles, 1,
             println(println(out, "Benchmark ID: " \o self.id), "Profiles:"))
    ELSE println(out, "Benchmark ID: " \o self.id)

\* One turn of the loop over self.components for one checklist reference.
print_component(component, checklist, out) ==
    IF SubSeq(checklist.href, 2, Len(checklist.href)) = component.id
    THEN IF component.content.variant = "XCCDFBenchmark"
         THEN Benchmark_print_information(component.content.benchmark,
                  println(out, "Component ID: " \o component.id))
         ELSE panic(println(out, "Component ID: " \o component.id),
                    "The component isn't a XCCDF benchmark")
    ELSE out

\* Mutant: the walk over the components stops at the first match.
RECURSIVE print_components_first_match(_, _, _, _)
print_components_first_match(components, k, checklist, out) ==
    IF out.panic # None \/ k > Len(components) THEN out
    ELSE IF SubSeq(checklist.href, 2, Len(checklist.href)) = components[k].id
    THEN print_component(components[k], checklist, out)
    ELSE print_components_first_match(components, k + 1, checklist, out)

RECURSIVE print_components(_, _, _, _)
print_components(components, k, checklist, out) ==
    IF out.panic # None \/ k > Len(components) THEN out
    ELSE print_components(components, k + 1, checklist,
                          print_component(components[k], checklist, out))

print_checklist(self, checklist, out) ==
    IF ~starts_with(checklist.href, "#")
    THEN println(println(out, "Ref-Id: " \o checklist.id),
                 "Remote checklists aren't supported by this tool")
    ELSE print_components(self.components, 1, checklist,
                          println(out, "Ref-Id: " \o checklist.id))

RECURSIVE print_checklists(_, _, _, _)
print_checklists(self, checklists, j, out) ==
    IF out.panic # None \/ j > Len(checklists) THEN out
    ELSE print_checklists(self, checklists, j + 1,
                          print_checklist(self, checklists[j], out))

print_stream(self, ds, out) ==
    print_checklists(self, ds.checklists, 1,
        println(println(println(out, "Stream: " \o ds.id), ""), "Checklists:"))

RECURSIVE print_streams(_, _, _, _)
print_streams(self, data_streams, i, out) ==
    IF out.panic # None \/ i > Len(data_streams) THEN out
    ELSE print_streams(self, data_streams, i + 1,
                       print_stream(self, data_streams[i], out))

DataStreamCollection_print_information(self) ==
    print_streams(self, self.data_streams, 1,
                  println(NoOutput, "Document type: SCAP Source Data Stream"))

\* How the process ends: the exit status (101 after a panic), what it wrote
\* to the standard output, and the panic message if it panicked.
Exit(status, out) == [kind |-> "Exit", status |-> status, stdout |-> out.lines,
                      panic |-> out.panic]

ExitAfter(out) == IF out.panic # None THEN Exit(101, out) ELSE Exit(0, out)

\* The match on the mapping result, and the panic that unwinds through main.
main_match(filepath, r) ==
    IF IsOk(r) THEN ExitAfter(DataStreamCollection_print_information(r.val))
    ELSE IF IsErr(r)
    THEN Exit(1, println(NoOutput, "Failed to parse SCAP Source data stream file '"
                                   \o filepath \o "': " \o r.msg))
    ELSE Exit(101, panic(NoOutput, r.msg))

\* args.file is what is found at args.filepath: nothing that can be opened,
\* something that is no well-formed XML, or the tree of a document.
main(args) ==
    IF args.file.t = "Missing"
    THEN Exit(101, panic(NoOutput, "Failed to open the input file"))
    ELSE IF args.file.t = "Malformed"
    THEN Exit(101, panic(NoOutput, "called Result::unwrap() on an Err value"))
    ELSE main_match(args.filepath, DataStreamCollection_from_xml(args.file))

(***************************************************************************)
(* The program run on a file (SpecMain)                                    *)
(***************************************************************************)
MaxChecklists == 2

MaxProfiles == 2

titled(t) == Elem("title", XCCDF12_NS, NoAttrs, <<Text(t)>>)

description_el(nodes) == Elem("description", XCCDF12_NS, NoAttrs, nodes)

profile_with(id, nodes) == Elem("Profile", XCCDF12_NS, Attr1("id", id), nodes)

ProfilePool ==
    {profile_with("p1", <<title_el, description_el(<<Text("Desc")>>)>>),
     profile_with("p2", <<title_el>>),
     profile_with("p3", <<description_el(<<Text("Only a"), br_el, Text("description")>>)>>),
     profile_with("p4", <<titled("First"), titled("Second")>>)}

ReportBenchmarks ==
    {benchmark_el(Attr1("id", "b1"), <<status_el("draft"), version_el>> \o profiles) :
        profiles \in SeqsUpTo(ProfilePool, MaxProfiles)}

comp_oval ==
    component_el(Attr2("id", "c2", "timestamp", "2020-01-01T00:00:00"), <<oval_el>>)

\* Two more components with the id of comp_ok.
comp_same_id ==
    component_el(comp_attrs_ok,
                 <<benchmark_el(Attr1("id", "b2"), <<status_el("draft"), version_el>>)>>)

comp_oval_same_id == component_el(comp_attrs_ok, <<oval_el>>)

ReportComponents ==
    {<<comp_oval>>, <<comp_ok, comp_same_id>>, <<comp_ok, comp_oval_same_id>>}
    \cup UNION {{<<component_el(comp_attrs_ok, <<b>>)>>,
                 <<component_el(comp_attrs_ok, <<b>>), comp_oval>>,
                 <<comp_oval, component_el(comp_attrs_ok, <<b>>)>>} :
                   b \in ReportBenchmarks}

checklist_ref(id, href) ==
    component_ref_el(Attr2("id", id, "xlink:href", href), <<>>)

ChecklistPool ==
    {checklist_ref("ref1", "#c1"),
     checklist_ref("ref2", "#c2"),
     checklist_ref("ref3", "http://example.org/remote.xml"),
     checklist_ref("ref4", "#c"),
     checklist_ref("ref5", "xc2")}

ReportDataStreams ==
    {data_stream_el(ds_attrs_ok, <<container_el("checklists", refs)>>) :
        refs \in SeqsUpTo(ChecklistPool, MaxChecklists)}

ReportDocs ==
    {root_el(<<SCAP12_NS, root_attrs_ok>>, <<d>> \o comps) :
        d \in ReportDataStreams, comps \in ReportComponents}

FailingDocs ==
    {root_el(h, nodes) :
        h \in RootHeads, nodes \in {<<>>, <<ds_ok>>, <<ds_bad_use_case, comp_ok>>,
                                    <<ds_ok, comp_bad_select>>}}

Missing == [t |-> "Missing"]

Malformed == [t |-> "Malformed"]

MainArgs ==
    [filepath : {"ds.xml", "data/simple.xml"},
     file : {Missing, Malformed} \cup ReportDocs \cup FailingDocs]

InitMain ==
    /\ op = "main"
    /\ input \in MainArgs
    /\ result = NoResult
    /\ pc = "ready"

RunMain ==
    /\ pc = "ready"
    /\ op = "main"
    /\ result' = main(input)
    /\ pc' = "done"
    /\ UNCHANGED <<op, input>>

NextMain == RunMain

SpecMain == InitMain /\ [][NextMain]_vars

IsDocument(file) == file.t = "Element"

Diagnostic(filepath, msg) ==
    "Failed to parse SCAP Source data stream file '" \o filepath \o "': " \o msg

\* C15 as stated: status 0 when the mapping succeeds; status 1 with the
\* diagnostic (filepath and error text) when the mapping fails; status 1 when
\* the file cannot be opened.
C15_ExitStatus ==
    (Done /\ op = "main") =>
        /\ (IsDocument(input.file) /\ IsOk(DataStreamCollection_from_xml(input.file)))
             => result.status = 0
        /\ (IsDocument(input.file) /\ IsErr(DataStreamCollection_from_xml(input.file)))
             => /\ result.status = 1
                /\ result.stdout =
                     <<Diagnostic(input.filepath,
                                  DataStreamCollection_from_xml(input.file).msg)>>
        /\ (IsDocument(input.file) /\ IsPanic(DataStreamCollection_from_xml(input.file)))
             => result.status = 1
        /\ input.file = Missing => result.status = 1

HasLine(lines, line) == \E i \in 1..Len(lines) : lines[i] = line

\* The profiles of every mapped Benchmark of a collection.
MappedProfiles(collection) ==
    UNION {Range(collection.components[i].content.benchmark.profiles) :
             i \in {j \in 1..Len(collection.components) :
                      collection.components[j].content.variant = "XCCDFBenchmark"}}

\* The Profile elements of a document's Benchmark payloads, in document order.
RECURSIVE ProfileElements(_, _)
ProfileElements(comps, i) ==
    IF i > Len(comps) THEN <<>>
    ELSE (IF is(comps[i], "component", SCAP12_NS) /\ Len(children(comps[i])) > 0
             /\ is(children(comps[i])[1], "Benchmark", XCCDF12_NS)
          THEN SelectSeq(children(children(comps[i])[1]),
                         LAMBDA e : e.name = "Profile")
          ELSE <<>>)
         \o ProfileElements(comps, i + 1)

Untitled(file) ==
    SelectSeq(ProfileElements(children(file), 1),
              LAMBDA e : ~\E i \in 1..Len(children(e)) : children(e)[i].name = "title")

\* C16: every Profile of a mapped collection has a title; a document of the
\* report pool with a Profile without title fails with the error that names
\* the first such profile; no report prints the placeholder as a title (no
\* title of the pool reads Unknown).
C16_ProfileHasTitle ==
    (Done /\ op = "main" /\ IsDocument(input.file)) =>
        /\ IsOk(DataStreamCollection_from_xml(input.file))
             => \A profile \in MappedProfiles(DataStreamCollection_from_xml(input.file).val) :
                   Len(profile.titles) >= 1
        /\ (input.file \in ReportDocs /\ Len(Untitled(input.file)) > 0)
             => /\ result.status = 1
                /\ result.stdout =
                     <<Diagnostic(input.filepath,
                                  "Profile '" \o Untitled(input.file)[1].attrs["id"]
                                  \o "' doesn't have any title")>>
        /\ ~HasLine(result.stdout, "* Unknown")

\* A report with a profile that has a title and no description: the
\* placeholder stands for the description only.
C16_Witness ==
    /\ Done
    /\ op = "main"
    /\ result.status = 0
    /\ HasLine(result.stdout, "ID: p2")
    /\ HasLine(result.stdout, "* Title")
    /\ HasLine(result.stdout, "Unknown")
    /\ HasLine(result.stdout, "* First")

AttrOr(el, a, default) == IF HasAttr(el, a) THEN el.attrs[a] ELSE default

RoleSet == {"full", "unscored", "unchecked"}

SeveritySet == {"unknown", "info", "low", "medium", "high"}

\* C17 as stated: a mapped Rule's role is its role attribute, or full, and
\* its severity its severity attribute, or unknown; a role or a severity
\* outside its set makes Rule::from_xml fail.
C17_RoleAndSeverity ==
    (Done /\ op = "Rule") =>
        /\ IsOk(result) => /\ result.val.role = AttrOr(input, "role", "full")
                           /\ result.val.severity = AttrOr(input, "severity", "unknown")
        /\ AttrOr(input, "role", "full") \notin RoleSet => IsErr(result)
        /\ AttrOr(input, "severity", "unknown") \notin SeveritySet => IsErr(result)

ComponentHeaderOk(el) == HasAttr(el, "id") /\ HasAttr(el, "timestamp")

Payload == children(input)[1]

\* C18: with id, timestamp and a payload, the content is XCCDFBenchmark
\* exactly for a payload named Benchmark in the XCCDF 1.2 namespace, and a
\* failure of the Benchmark mapper is the component's failure; any other
\* payload gives NotImplemented and a mapped component, whatever is below it;
\* component_name and component_ns are the payload's.
C18_ComponentContent ==
    (Done /\ op = "Component" /\ ComponentHeaderOk(input) /\ Len(children(input)) > 0) =>
        IF Payload.name = "Benchmark" /\ Payload.ns = XCCDF12_NS
        THEN IF IsOk(Benchmark_from_xml(Payload))
             THEN result = Ok([id |-> input.attrs["id"],
                               timestamp |-> input.attrs["timestamp"],
                               component_name |-> "Benchmark",
                               component_ns |-> XCCDF12_NS,
                               content |-> [variant |-> "XCCDFBenchmark",
                                            benchmark |-> Benchmark_from_xml(Payload).val]])
             ELSE result = Benchmark_from_xml(Payload)
        ELSE result = Ok([id |-> input.attrs["id"],
                          timestamp |-> input.attrs["timestamp"],
                          component_name |-> Payload.name,
                          component_ns |-> Payload.ns,
                          content |-> [variant |-> "NotImplemented"]])

\* A payload named Benchmark in another namespace, with a child no Benchmark
\* may have: the component is mapped, the content is NotImplemented.
C18_Witness ==
    /\ Done
    /\ op = "Component"
    /\ ComponentHeaderOk(input)
    /\ Len(children(input)) > 0
    /\ Payload.name = "Benchmark"
    /\ Payload.ns = OTHER_NS
    /\ Len(children(Payload)) > 0
    /\ IsOk(result)
    /\ result.val.content = NotImplemented
    /\ result.val.component_ns = OTHER_NS

(***************************************************************************)
(* Benchmark, Profile, Group and Rule mappers on their children            *)
(* (SpecStrict)                                                            *)
(***************************************************************************)
MaxStrictChildren == 2

deep_group ==
    group_el(Attr1("id", "g2"),
        <<group_el(Attr1("id", "g3"), <<value_el, rule_ok>>), value_el>>)

StrictPool ==
    {title_el, status_el("draft"), status_el("final"), version_el, unknown_el,
     rule_ok, value_el, deep_group, select_el("true"),
     Elem("check", XCCDF12_NS, NoAttrs, <<Text("c")>>),
     group_el(Attr1("id", "g4"), <<unknown_el>>),
     Text(" ")}

StrictDocs ==
    {Elem(name, XCCDF12_NS, Attr1("id", "o1"), nodes) :
        name \in {"Benchmark", "Profile", "Group", "Rule"},
        nodes \in SeqsUpTo(StrictPool, MaxStrictChildren)}

InitStrict ==
    /\ input \in StrictDocs
    /\ op = input.name
    /\ result = NoResult
    /\ pc = "ready"

MapProfile ==
    /\ pc = "ready"
    /\ op = "Profile"
    /\ result' = Profile_from_xml(input)
    /\ pc' = "done"
    /\ UNCHANGED <<op, input>>

NextStrict == MapBenchmark \/ MapProfile \/ MapGroup \/ MapRule

SpecStrict == InitStrict /\ [][NextStrict]_vars

\* The child names each mapper knows.
CommonNames == {"status", "version", "title", "description", "reference", "platform"}

ItemNames ==
    CommonNames \cup {"warning", "question", "metadata", "rationale", "requires",
                      "conflicts"}

KnownChildren(parent) ==
    CASE parent = "Benchmark" ->
            CommonNames \cup {"notice", "front-matter", "rear-matter", "plain-text",
                              "platform-specification", "metadata", "model",
                              "Profile", "Value", "Group", "Rule", "TestResult"}
      [] parent = "Profile" ->
            CommonNames \cup {"select", "set-complex-value", "set-value",
                              "refine-value", "refine-rule"}
      [] parent = "Group" -> ItemNames \cup {"Value", "Group", "Rule"}
      [] parent = "Rule" ->
            ItemNames \cup {"ident", "profile-note", "fixtext", "fix", "check",
                            "complex-check"}

Unknowns(el) ==
    {i \in 1..Len(children(el)) : children(el)[i].name \notin KnownChildren(el.name)}

FirstUnknown(el) == CHOOSE i \in Unknowns(el) : \A j \in Unknowns(el) : i <= j

\* The child pass of el gets through its first k children without a failure.
PrefixOk(el, k) ==
    CASE el.name = "Benchmark" -> BenchPrefixOk(children(el), k)
      [] el.name = "Profile" ->
            IsOk(Profile_children("o1", SubSeq(children(el), 1, k), 1, Ok(Profile_empty)))
      [] el.name = "Group" ->
            IsOk(Group_children("o1", SubSeq(children(el), 1, k), 1, Ok(Group_empty)))
      [] el.name = "Rule" ->
            IsOk(Rule_children("o1", SubSeq(children(el), 1, k), 1, Ok(Rule_empty)))

UnexpectedChild(el, name) ==
    CASE el.name = "Benchmark" -> Err("unexpected element " \o name)
      [] el.name = "Profile" ->
            Err("Profile '" \o el.attrs["id"] \o "': unexpected element '" \o name \o "'")
      [] el.name \in {"Group", "Rule"} ->
            Err("Rule '" \o el.attrs["id"] \o "': unexpected element '" \o name \o "'")

\* C19: the first child whose name the mapper does not know fails the
\* mapping when it is met, whatever follows it; the message of Profile, Group
\* and Rule holds the owner's id and the child's name; Group, Rule and Value
\* are unknown to a Rule; a Group maps Value, Group and Rule children nested
\* in Groups.
C19_UnknownChildFails ==
    (Done /\ op \in {"Benchmark", "Profile", "Group", "Rule"}) =>
        /\ (Unknowns(input) # {} /\ PrefixOk(input, FirstUnknown(input) - 1))
             => result = UnexpectedChild(input,
                             children(input)[FirstUnknown(input)].name)
        /\ (op = "Rule" /\ \E i \in 1..Len(children(input)) :
                              children(input)[i].name \in {"Group", "Rule", "Value"})
             => IsErr(result)
        /\ (op = "Group" /\ children(input) = <<deep_group>>)
             => /\ IsOk(result)
                /\ result.val.groups[1].groups[1].rules[1].id = "r1"
                /\ result.val.groups[1].groups[1].values[1].id = "v1"

\* A Rule whose second child is a Value, after a title that maps.
C19_Witness ==
    /\ Done
    /\ op = "Rule"
    /\ children(input) = <<title_el, value_el>>
    /\ result = Err("Rule 'o1': unexpected element 'Value'")

(***************************************************************************)
(* The four ComponentRef lists of a DataStream (SpecDataStream)            *)
(***************************************************************************)
ListOf(ds, name) ==
    CASE name = "dictionaries" -> ds.dictionaries
      [] name = "checklists" -> ds.checklists
      [] name = "checks" -> ds.checks
      [] name = "extended-components" -> ds.extended_components

\* The element children, in document order, of every child of el named name
\* in the Source Data Stream namespace.
RECURSIVE GrandchildrenFrom(_, _, _)
GrandchildrenFrom(ch, name, i) ==
    IF i > Len(ch) THEN <<>>
    ELSE (IF is(ch[i], name, SCAP12_NS) THEN children(ch[i]) ELSE <<>>)
         \o GrandchildrenFrom(ch, name, i + 1)

Grandchildren(el, name) == GrandchildrenFrom(children(el), name, 1)

WellFormedRef(g) ==
    /\ is(g, "component-ref", SCAP12_NS)
    /\ HasAttr(g, "id")
    /\ HasAttr(g, "xlink:href")

\* C20: each list of a mapped DataStream holds one ComponentRef for every
\* grandchild under the data-stream's children of the list's container name,
\* in document order (so it is empty without a container); a grandchild that is
\* no component-ref of the Source Data Stream namespace, or has no id or no
\* xlink:href, makes DataStream::from_xml fail.
C20_ComponentRefLists ==
    (Done /\ op = "DataStream") =>
        /\ IsOk(result) =>
             \A name \in ContainerNames :
                /\ Len(ListOf(result.val, name)) = Len(Grandchildren(input, name))
                /\ \A i \in 1..Len(Grandchildren(input, name)) :
                      i <= Len(ListOf(result.val, name)) =>
                        /\ ListOf(result.val, name)[i].id
                              = Grandchildren(input, name)[i].attrs["id"]
                        /\ ListOf(result.val, name)[i].href
                              = Grandchildren(input, name)[i].attrs["xlink:href"]
        /\ (\E name \in ContainerNames :
               \E i \in 1..Len(Grandchildren(input, name)) :
                  ~WellFormedRef(Grandchildren(input, name)[i]))
             => IsErr(result)

(***************************************************************************)
(* The walk of print_information over the checklist references (SpecMain)  *)
(***************************************************************************)
Collection == DataStreamCollection_from_xml(input.file).val

\* The checklist references of every data stream, in the order of the walk.
RECURSIVE ChecklistsFrom(_, _)
ChecklistsFrom(data_streams, i) ==
    IF i > Len(data_streams) THEN <<>>
    ELSE data_streams[i].checklists \o ChecklistsFrom(data_streams, i + 1)

AllChecklists == ChecklistsFrom(Collection.data_streams, 1)

IsLocal(ref) == starts_with(ref.href, "#")

\* The components a local reference names: "#" followed by the id, exactly.
Matches(ref) ==
    IF IsLocal(ref)
    THEN {k \in 1..Len(Collection.components) :
            "#" \o Collection.components[k].id = ref.href}
    ELSE {}

IsBenchmarkAt(k) == Collection.components[k].content.variant = "XCCDFBenchmark"

Resolutions ==
    {jk \in (1..Len(AllChecklists)) \X (1..Len(Collection.components)) :
        jk[2] \in Matches(AllChecklists[jk[1]])}

Fatal == \E jk \in Resolutions : ~IsBenchmarkAt(jk[2])

CountLine(lines, line) == Cardinality({i \in 1..Len(lines) : lines[i] = line})

RemoteNotice == "Remote checklists aren't supported by this tool"

\* C21: in the report of a mapped collection, a reference whose href does not
\* start with # gets the notice and no component is looked at; a local
\* reference reports every component whose id equals the href without its #,
\* not the first only; a named component that holds no Benchmark ends the run
\* abruptly, after its Component ID line; a reference that names no component
\* adds no component output and no failure.
C21_ReferenceResolution ==
    (Done /\ op = "main" /\ IsDocument(input.file)
          /\ IsOk(DataStreamCollection_from_xml(input.file))) =>
        /\ Fatal <=> /\ result.status = 101
                     /\ result.panic = Some("The component isn't a XCCDF benchmark")
        /\ Fatal =>
             \E jk \in Resolutions :
                /\ ~IsBenchmarkAt(jk[2])
                /\ result.stdout[Len(result.stdout)]
                      = "Component ID: " \o Collection.components[jk[2]].id
        /\ ~Fatal =>
             /\ result.status = 0
             /\ CountLine(result.stdout, RemoteNotice)
                  = Cardinality({j \in 1..Len(AllChecklists) : ~IsLocal(AllChecklists[j])})
             /\ \A k \in 1..Len(Collection.components) :
                  /\ CountLine(result.stdout,
                               "Component ID: " \o Collection.components[k].id)
                       = Cardinality({jk \in Resolutions :
                            Collection.components[jk[2]].id = Collection.components[k].id})
                  /\ IsBenchmarkAt(k) =>
                       CountLine(result.stdout,
                                 "Benchmark ID: " \o Collection.components[k].content.benchmark.id)
                         = Cardinality({jk \in Resolutions :
                              /\ IsBenchmarkAt(jk[2])
                              /\ Collection.components[jk[2]].content.benchmark.id
                                   = Collection.components[k].content.benchmark.id})

\* One local reference reports both components of its id, and a remote one
\* that follows gets the notice.
C21_Witness ==
    /\ Done
    /\ op = "main"
    /\ result.status = 0
    /\ CountLine(result.stdout, "Component ID: c1") = 2
    /\ HasLine(result.stdout, "Benchmark ID: b1")
    /\ HasLine(result.stdout, "Benchmark ID: b2")
    /\ HasLine(result.stdout, RemoteNotice)

(***************************************************************************)
(* The buckets of a mapped Benchmark (SpecBuckets)                         *)
(***************************************************************************)
MaxBucketChildren == 4

foreign_title == Elem("title", OTHER_NS, NoAttrs, <<Text("Foreign")>>)

BucketPool ==
    {status_el("draft"), status_el("interim"), version_el, platform_specification_el,
     titled("First"), foreign_title, profile_with("p1", <<title_el>>),
     profile_with("p2", <<title_el>>), unknown_el, Text(" ")}

BucketDocs ==
    {benchmark_el(Attr1("id", "b1"), nodes) :
        nodes \in SeqsUpTo(BucketPool, MaxBucketChildren)}

InitBuckets ==
    /\ op = "Benchmark"
    /\ input \in BucketDocs
    /\ result = NoResult
    /\ pc = "ready"

NextBuckets == MapBenchmark

SpecBuckets == InitBuckets /\ [][NextBuckets]_vars

\* The list of the Benchmark that takes the children of each local name.
ListBucket ==
    [status |-> "statuses", title |-> "titles", description |-> "descriptions",
     notice |-> "notices", reference |-> "references", platform |-> "platforms",
     metadata |-> "metadata", model |-> "models", Profile |-> "profiles",
     Value |-> "values", Group |-> "groups", Rule |-> "rules",
     TestResult |-> "test_results"]
    @@ ("front-matter" :> "front_matters") @@ ("rear-matter" :> "rear_matters")
    @@ ("plain-text" :> "plain_texts")

Named(el, name) == SelectSeq(children(el), LAMBDA c : c.name = name)

RECURSIVE SumLen(_, _)
SumLen(benchmark, names) ==
    IF names = {} THEN 0
    ELSE LET n == CHOOSE x \in names : TRUE
         IN  Len(benchmark[ListBucket[n]]) + SumLen(benchmark, names \ {n})

Filled(option) == IF option = None THEN 0 ELSE 1

\* C22: in a mapped Benchmark every child element is held by one bucket, that
\* of its local name whatever its namespace: each list is as long as the
\* children of its name are many, the version and the platform-specification
\* are the children of those names, the entries of all lists and the filled
\* singletons are as many as the children, and the lists keep the document
\* order of their children.
C22_OneBucketPerChild ==
    (Done /\ op = "Benchmark" /\ IsOk(result)) =>
        /\ \A name \in DOMAIN ListBucket :
              Len(result.val[ListBucket[name]]) = Len(Named(input, name))
        /\ Len(Named(input, "version")) = 1
        /\ result.val.version = [text |-> text(Named(input, "version")[1])]
        /\ Len(Named(input, "platform-specification"))
              = Filled(result.val.platform_specification)
        /\ SumLen(result.val, DOMAIN ListBucket) + 1
              + Filled(result.val.platform_specification) = Len(children(input))
        /\ \A i \in 1..Len(Named(input, "title")) :
              result.val.titles[i].title = text(Named(input, "title")[i])
        /\ \A i \in 1..Len(Named(input, "status")) :
              result.val.statuses[i].status = text(Named(input, "status")[i])
        /\ \A i \in 1..Len(Named(input, "Profile")) :
              result.val.profiles[i].id = Named(input, "Profile")[i].attrs["id"]

\* Two titles, the first of a foreign namespace, with the status and the
\* version between and after them.
C22_Witness ==
    /\ Done
    /\ op = "Benchmark"
    /\ children(input) = <<foreign_title, status_el("draft"), titled("First"), version_el>>
    /\ IsOk(result)
    /\ result.val.titles = <<[title |-> "Foreign"], [title |-> "First"]>>

====
